---- MODULE Spec2Model ----
(***************************************************************************)
(* Horta Escolar dashboards: the filtering-and-aggregation pipeline of the *)
(* three revisions of the Streamlit script (app.py, app2.py,               *)
(* app_enhanced.py).  A Streamlit script is re-executed from top to bottom *)
(* on every widget change; one behaviour of this module is a sequence of   *)
(* such runs over one set of CSV files, each run being the chain of the    *)
(* script's steps.                                                         *)
(*                                                                         *)
(* Data representation.                                                    *)
(*   - a table (DataFrame) is a sequence of records; the field `row` is   *)
(*     the pandas index of the row;                                        *)
(*   - a nullable cell is a set with at most one element: {} is NaN / NaT  *)
(*     / <NA>, {v} is the value v;                                         *)
(*   - a date is a day ordinal, 0 being 2025-01-01;                        *)
(*   - a ratio is a pair <<numerator, denominator>>.                       *)
(*   - a free text (notes, comments, the search box) is the sequence of   *)
(*     its characters, over the alphabet "a", "A", "b", ".", "(", " ".    *)
(*   - the quantidade_colhida field of colheitas.csv is the text of the   *)
(*     CSV field ("5", "2.5", "abc", "" for an empty field) until the      *)
(*     script parses it; a parsed quantity is a cell holding an integer.   *)
(*   - the column sets of the six tables are the fixed ones of the data    *)
(*     model; the two columns added by the joins (canteiro_nome,           *)
(*     especie_nome) exist only when the join ran, which the flags         *)
(*     has_canteiro_nome / has_especie_nome record.                        *)
(*   - the filter criteria are a plain configuration value: the widgets'   *)
(*     values range over the bounded domains below.                        *)
(***************************************************************************)
EXTENDS Integers, Sequences, FiniteSets, TLC

VARIABLES
  app,                \* which script runs: "app", "app2" or "app_enhanced"
  files,              \* the CSV files on disk: name -> rows, or absent
  today,              \* datetime.date.today()
  crit,               \* the values of the sidebar widgets
  pc,                 \* position of the run in the script
  canteiros, especies, plantios, observ, colheitas, eventos,
  has_canteiro_nome, has_especie_nome,
  date_range,         \* (start, end) of the planting-date filter
  plantios_f,         \* the selection (app_enhanced: plantios_f, others: p)
  plantio_ids,
  colheitas_f, observ_f, eventos_f,
  kpi,                \* the KPI scalars of the run
  by_canteiro, by_especie,
  bed_status,
  species_rate,       \* app2: success rate by species (rate)
  monthly,            \* app_enhanced: monthly production series
  cf, ev,             \* app_enhanced: tables of the Colheitas and Manejo pages
  report,             \* app_enhanced: per-bed report of the Relatórios page
  photo_metadata,     \* data/photo_metadata.csv
  uploads,            \* names of the files of the uploads directory
  clock,              \* datetime.datetime.now(), in seconds
  prev,               \* results of the run before the last narrowing
  messages            \* st.error / st.warning messages of the run

vars == <<app, files, today, crit, pc, canteiros, especies, plantios, observ,
          colheitas, eventos, has_canteiro_nome, has_especie_nome, date_range,
          plantios_f, plantio_ids, colheitas_f, observ_f, eventos_f, kpi,
          by_canteiro, by_especie, bed_status, species_rate, monthly,
          cf, ev, report, photo_metadata, uploads, clock, prev, messages>>

-----------------------------------------------------------------------------
(* Bounds of the model.                                                    *)

MaxPlantios == 1
MaxColheitas == 2
MaxChild == 1
MaxSelPlantios == 1

-----------------------------------------------------------------------------
(* Nullable cells and small helpers.                                       *)

NA == {}

Opt(S) == {NA} \cup {{x} : x \in S}

Tables(Rows, n) == UNION {[1..k -> Rows] : k \in 0..n}

Range(s) == {s[i] : i \in 1..Len(s)}

RECURSIVE SumSeq(_)
SumSeq(s) == IF s = <<>> THEN 0 ELSE Head(s) + SumSeq(Tail(s))

RECURSIVE Flatten(_)
Flatten(ss) == IF ss = <<>> THEN <<>> ELSE Head(ss) \o Flatten(Tail(ss))

RECURSIVE SetToSeq(_)
SetToSeq(S) == IF S = {} THEN <<>>
               ELSE LET x == CHOOSE y \in S : TRUE IN <<x>> \o SetToSeq(S \ {x})

(* The RangeIndex pandas gives to the rows of a read or of a merge. *)
WithIndex(s) == [i \in 1..Len(s) |-> ("row" :> i) @@ s[i]]

(* Series.sum(): NaN cells are skipped. *)
SumCells(cells) ==
  SumSeq([i \in 1..Len(cells) |-> IF cells[i] = NA THEN 0 ELSE CHOOSE v \in cells[i] : TRUE])

(* Series.nunique(): the number of distinct non-null values. *)
NUnique(cells) == Cardinality(UNION Range(cells))

Column(df, f) == [i \in 1..Len(df) |-> df[i][f]]

Val(cell) == CHOOSE v \in cell : TRUE

(* min() / max() of a datetime Series: NaT cells are skipped, NaT if none. *)
MinCell(cells) ==
  LET S == UNION Range(cells)
  IN IF S = {} THEN NA ELSE {CHOOSE x \in S : \A y \in S : x <= y}

MaxCell(cells) ==
  LET S == UNION Range(cells)
  IN IF S = {} THEN NA ELSE {CHOOSE x \in S : \A y \in S : x >= y}

(* Every string the model uses as a name, in Python's string order. *)
AllNames == <<"A", "B", "Basil", "Tomato">>

Rank(cell) ==
  IF cell = NA THEN Len(AllNames) + 1
  ELSE CHOOSE i \in 1..Len(AllNames) : AllNames[i] = Val(cell)

(* groupby(key).quantidade_colhida.sum(): one record per group, the groups *)
(* whose key is NaN being dropped unless dropna=False.                      *)
GroupSum(rows, key, dropna) ==
  LET keys == {rows[i][key] : i \in 1..Len(rows)} \ (IF dropna THEN {NA} ELSE {})
  IN {[group |-> k,
       quantidade_colhida |->
         SumCells(Column(SelectSeq(rows, LAMBDA r : r[key] = k), "quantidade_colhida"))]
      : k \in keys}

(* sort_values('quantidade_colhida', ascending=False) of a grouped sum. *)
RECURSIVE SortDesc(_)
SortDesc(G) ==
  IF G = {} THEN <<>>
  ELSE LET top == CHOOSE g \in G : \A h \in G :
                    \/ g.quantidade_colhida > h.quantidade_colhida
                    \/ /\ g.quantidade_colhida = h.quantidade_colhida
                       /\ Rank(g.group) <= Rank(h.group)
       IN <<top>> \o SortDesc(G \ {top})

(* DataFrame.merge(right, on=key, how='left'|'inner'): for every left row, *)
(* in order, one row per right row with an equal key (null keys match null *)
(* keys); with how='left' a left row without a match is kept once, the      *)
(* right columns null.                                                      *)
Merge(left, right, key, fields, how) ==
  LET nulls == [f \in fields |-> NA]
      one(l) ==
        LET m == SelectSeq(right, LAMBDA r : r[key] = l[key])
        IN IF m = <<>>
           THEN (IF how = "left" THEN <<l @@ nulls>> ELSE <<>>)
           ELSE [j \in 1..Len(m) |-> l @@ [f \in fields |-> m[j][f]]]
  IN WithIndex(Flatten([i \in 1..Len(left) |-> one(left[i])]))

Rename(df, old, new) ==
  [i \in 1..Len(df) |-> (new :> df[i][old]) @@ df[i]]

-----------------------------------------------------------------------------
(* The state a run of the script starts from: no script variable is set.   *)

FileNames == {"canteiros", "especies", "plantios", "observacoes", "colheitas", "eventos"}

NoKpi == [total_colhido |-> NA, total_plantios |-> NA, plantios_colhidos |-> NA,
          taxa_sucesso |-> NA, num_observ |-> NA]

DefaultCrit == [period |-> <<>>, especie_sel |-> "Todas", canteiro_sel |-> "Todos",
                responsavel_sel |-> "Todos", metodo_sel |-> "Todos",
                only_active |-> FALSE, search_text |-> <<>>, page |-> "Dashboard"]

(* No report was asked for. *)
NoReport == [can_sel |-> NA]

(* photo_metadata.csv does not exist. *)
NoMetadata == [exists |-> FALSE, readable |-> FALSE, rows |-> <<>>]

NoPrev == [run |-> FALSE]

(* What a step of the script leaves alone besides the script variables: the *)
(* photo files, the clock and the record of the earlier run.                *)
outside == <<photo_metadata, uploads, clock, prev>>

FreshRun ==
  /\ pc' = "load"
  /\ canteiros' = <<>> /\ especies' = <<>> /\ plantios' = <<>>
  /\ observ' = <<>> /\ colheitas' = <<>> /\ eventos' = <<>>
  /\ has_canteiro_nome' = FALSE /\ has_especie_nome' = FALSE
  /\ date_range' = <<>>
  /\ plantios_f' = <<>> /\ plantio_ids' = {}
  /\ colheitas_f' = <<>> /\ observ_f' = <<>> /\ eventos_f' = <<>>
  /\ kpi' = NoKpi
  /\ by_canteiro' = <<>> /\ by_especie' = <<>> /\ bed_status' = <<>>
  /\ species_rate' = <<>> /\ monthly' = <<>>
  /\ cf' = <<>> /\ ev' = <<>> /\ report' = NoReport
  /\ messages' = {}

InitWith(Apps, Stores, Todays) ==
  /\ app \in Apps
  /\ files \in Stores
  /\ today \in Todays
  /\ crit = DefaultCrit
  /\ pc = "load"
  /\ canteiros = <<>> /\ especies = <<>> /\ plantios = <<>>
  /\ observ = <<>> /\ colheitas = <<>> /\ eventos = <<>>
  /\ has_canteiro_nome = FALSE /\ has_especie_nome = FALSE
  /\ date_range = <<>>
  /\ plantios_f = <<>> /\ plantio_ids = {}
  /\ colheitas_f = <<>> /\ observ_f = <<>> /\ eventos_f = <<>>
  /\ kpi = NoKpi
  /\ by_canteiro = <<>> /\ by_especie = <<>> /\ bed_status = <<>>
  /\ species_rate = <<>> /\ monthly = <<>>
  /\ cf = <<>> /\ ev = <<>> /\ report = NoReport
  /\ photo_metadata = NoMetadata /\ uploads = {} /\ clock = 0
  /\ prev = NoPrev
  /\ messages = {}

-----------------------------------------------------------------------------
(* app_enhanced.py                                                         *)

(* safe_load: a missing file gives st.error and an empty DataFrame. *)
safe_load(name) ==
  IF name \in files.absent THEN <<>> ELSE WithIndex(files[name])

EnhLoad ==
  /\ app = "app_enhanced" /\ pc = "load"
  /\ canteiros' = safe_load("canteiros")
  /\ especies' = safe_load("especies")
  /\ plantios' = safe_load("plantios")
  /\ observ' = safe_load("observacoes")
  /\ colheitas' = safe_load("colheitas")
  /\ eventos' = safe_load("eventos")
  /\ messages' = {<<"error", "Arquivo ausente", n>> : n \in files.absent}
  /\ pc' = "join"
  /\ UNCHANGED <<species_rate, monthly, cf, ev, report, outside>>
  /\ UNCHANGED <<app, files, today, crit, has_canteiro_nome, has_especie_nome,
                 date_range, plantios_f, plantio_ids, colheitas_f, observ_f,
                 eventos_f, kpi, by_canteiro, by_especie, bed_status>>

(* Basic joins / cleanup: each left join runs only when both tables have rows. *)
(* An enrichment by inner join, which keeps only the plantings whose bed   *)
(* resolves.                                                               *)
JoinCanteirosInner(pl, can) ==
  Merge(pl, Rename(can, "nome", "canteiro_nome"), "canteiro_id", {"canteiro_nome"}, "inner")

JoinCanteiros(pl, can) ==
  Merge(pl, Rename(can, "nome", "canteiro_nome"), "canteiro_id", {"canteiro_nome"}, "left")

JoinEspecies(pl, esp) ==
  Merge(pl, Rename(esp, "nome_comum", "especie_nome"), "especie_id", {"especie_nome"}, "left")

(* The id columns of a row whose text in the file is not a number; the    *)
(* cell of such a column holds what the coercion to a number makes of it,  *)
(* NaN.  A row that does not say has numbers and empty fields only.        *)
text_columns(r) == IF "text" \in DOMAIN r THEN r.text ELSE {}

(* The dtype pd.read_csv gives the column: object when a field of it is    *)
(* text, a number type otherwise.                                          *)
dtype(df, col) ==
  IF \E i \in 1..Len(df) : col \in text_columns(df[i]) THEN "object" ELSE "number"

(* merge on an object column and a number column raises ValueError. *)
merge_raises(left, right, key) == dtype(left, key) # dtype(right, key)

EnhJoin ==
  /\ app = "app_enhanced" /\ pc = "join"
  /\ LET j1 == plantios # <<>> /\ canteiros # <<>>
         e1 == j1 /\ merge_raises(plantios, canteiros, "canteiro_id")
         p1 == IF j1 /\ ~e1 THEN JoinCanteiros(plantios, canteiros) ELSE plantios
         j2 == p1 # <<>> /\ especies # <<>>
         e2 == ~e1 /\ j2 /\ merge_raises(p1, especies, "especie_id")
         p2 == IF j2 /\ ~e1 /\ ~e2 THEN JoinEspecies(p1, especies) ELSE p1
     IN /\ plantios' = p2
        /\ has_canteiro_nome' = (j1 /\ ~e1)
        /\ has_especie_nome' = (j2 /\ ~e1 /\ ~e2)
        /\ IF e1 \/ e2
           THEN /\ pc' = "error"
                /\ messages' = messages \cup
                     {<<"exception", "ValueError",
                        IF e1 THEN "canteiro_id" ELSE "especie_id">>}
           ELSE /\ pc' = "sidebar"
                /\ UNCHANGED messages
  /\ UNCHANGED <<species_rate, monthly, cf, ev, report, outside>>
  /\ UNCHANGED <<app, files, today, crit, canteiros, especies, observ, colheitas,
                 eventos, date_range, plantios_f, plantio_ids, colheitas_f,
                 observ_f, eventos_f, kpi, by_canteiro, by_especie, bed_status>>

(* Sidebar: the default of the period widget is the observed range of      *)
(* data_plantio, or the last 365 days when there is no planting.           *)
DaysBack == 365

min_plantio_date ==
  IF plantios # <<>> THEN MinCell(Column(plantios, "data_plantio")) ELSE {today - DaysBack}

max_plantio_date ==
  IF plantios # <<>> THEN MaxCell(Column(plantios, "data_plantio")) ELSE {today}

EnhDefaultPeriod == <<min_plantio_date, max_plantio_date>>

(* The value of st.date_input: the default, or the range the user picked. *)
DateInput(default) ==
  IF crit.period = <<>> THEN default ELSE <<{crit.period[1]}, {crit.period[2]}>>

(* A NaT default (no planting has a date) is not a date the widget is      *)
(* specified for: the run either dies there or goes on with NaT bounds.    *)
EnhSidebar ==
  /\ app = "app_enhanced" /\ pc = "sidebar"
  /\ date_range' = DateInput(EnhDefaultPeriod)
  /\ \/ pc' = "normalize"
     \/ /\ NA \in Range(EnhDefaultPeriod)
        /\ pc' = "error"
  /\ UNCHANGED <<species_rate, monthly, cf, ev, report, outside>>
  /\ UNCHANGED <<app, files, today, crit, canteiros, especies, plantios, observ,
                 colheitas, eventos, has_canteiro_nome, has_especie_nome,
                 plantios_f, plantio_ids, colheitas_f, observ_f, eventos_f, kpi,
                 by_canteiro, by_especie, bed_status, messages>>

(* The numeric CSV fields of the model and their value in tenths; any     *)
(* other text is not a number.                                             *)
NumericTenths ==
  [t \in {"0", "5", "-3", "2.4", "2.5", "3.5", "-0.4"} |->
     CASE t = "0" -> 0 [] t = "5" -> 50 [] t = "-3" -> 0 - 30 [] t = "2.4" -> 24
       [] t = "2.5" -> 25 [] t = "3.5" -> 35 [] t = "-0.4" -> 0 - 4]

(* pd.to_numeric(errors='coerce'): the number in tenths, NaN for a text    *)
(* that is not a number and for an empty field.                            *)
to_numeric(text) == IF text \in DOMAIN NumericTenths THEN {NumericTenths[text]} ELSE NA

fillna(cell, v) == IF cell = NA THEN {v} ELSE cell

(* Series.round(): to the nearest whole number, a half to the even one. *)
round_half_even(tenths) ==
  LET q == tenths \div 10
      r == tenths % 10
  IN IF r < 5 THEN q
     ELSE IF r > 5 THEN q + 1
     ELSE IF q % 2 = 0 THEN q ELSE q + 1

(* normalize_dataframes: identifier columns to Int64 (the model's ids are  *)
(* integers or missing already); quantidade_colhida through               *)
(* to_numeric(errors='coerce').fillna(0).round().astype(int).              *)
NormalizeQuantidade(text) == {round_half_even(Val(fillna(to_numeric(text), 0)))}

(* pd.read_csv of app.py and app2.py, which never normalise: a column of   *)
(* whole numbers is read as numbers, an empty field as NaN.                *)
read_quantidade(text) ==
  IF text \in DOMAIN NumericTenths THEN {NumericTenths[text] \div 10} ELSE NA

read_colheitas(df) ==
  [i \in 1..Len(df) |-> [df[i] EXCEPT !.quantidade_colhida = read_quantidade(@)]]

normalize_colheitas(df) ==
  [i \in 1..Len(df) |->
     [df[i] EXCEPT !.quantidade_colhida = NormalizeQuantidade(@)]]

(* pd.to_numeric(errors='coerce').astype('Int64') on the id columns: what  *)
(* was text is NaN, and no column holds text any more.                     *)
normalize_ids(df) ==
  [i \in 1..Len(df) |->
     IF "text" \in DOMAIN df[i] THEN [df[i] EXCEPT !.text = {}] ELSE df[i]]

EnhNormalize ==
  /\ app = "app_enhanced" /\ pc = "normalize"
  /\ colheitas' = normalize_colheitas(colheitas)
  /\ plantios' = normalize_ids(plantios)
  /\ pc' = "filter"
  /\ UNCHANGED <<species_rate, monthly, cf, ev, report, outside>>
  /\ UNCHANGED <<app, files, today, crit, canteiros, especies, observ,
                 eventos, has_canteiro_nome, has_especie_nome, date_range,
                 plantios_f, plantio_ids, colheitas_f, observ_f, eventos_f, kpi,
                 by_canteiro, by_especie, bed_status, messages>>

(* A period whose end date is left out. *)
InPeriodExclusive(cell, range) ==
  \E d \in cell : \E s \in range[1] : \E e \in range[2] : d >= s /\ d < e

(* responsavel_options: "Todos" and the responsibles of the plantings, a   *)
(* missing one shown as "N/A".                                             *)
responsavel_options ==
  {"Todos"} \cup {Val(fillna(plantios[i].responsavel, "N/A")) : i \in 1..Len(plantios)}

(* (date >= s) & (date <= e): a comparison with NaT is False. *)
InPeriod(cell, range) ==
  \E d \in cell : \E s \in range[1] : \E e \in range[2] : d >= s /\ d <= e

(* Global filters that read a species name unknown to the species table as *)
(* no filter.                                                              *)
filter_plantios_skip_unknown(df) ==
  IF df = <<>> THEN df
  ELSE
    LET known == \E i \in 1..Len(especies) : especies[i].nome_comum = {crit.especie_sel}
        d1 == SelectSeq(df, LAMBDA r : InPeriod(r.data_plantio, date_range))
        d2 == IF crit.especie_sel # "Todas" /\ has_especie_nome /\ known
              THEN SelectSeq(d1, LAMBDA r : r.especie_nome = {crit.especie_sel})
              ELSE d1
        d3 == IF crit.canteiro_sel # "Todos" /\ has_canteiro_nome
              THEN SelectSeq(d2, LAMBDA r : r.canteiro_nome = {crit.canteiro_sel})
              ELSE d2
        d4 == IF crit.responsavel_sel # "Todos"
              THEN SelectSeq(d3, LAMBDA r : r.responsavel = {crit.responsavel_sel})
              ELSE d3
    IN d4

(* Global filters of which each is applied to the whole table and the last *)
(* one chosen wins.                                                        *)
filter_plantios_last_wins(df) ==
  IF df = <<>> THEN df
  ELSE
    LET d1 == SelectSeq(df, LAMBDA r : InPeriod(r.data_plantio, date_range))
        d2 == IF crit.especie_sel # "Todas" /\ has_especie_nome
              THEN SelectSeq(df, LAMBDA r : r.especie_nome = {crit.especie_sel})
              ELSE d1
        d3 == IF crit.canteiro_sel # "Todos" /\ has_canteiro_nome
              THEN SelectSeq(df, LAMBDA r : r.canteiro_nome = {crit.canteiro_sel})
              ELSE d2
        d4 == IF crit.responsavel_sel # "Todos"
              THEN SelectSeq(df, LAMBDA r : r.responsavel = {crit.responsavel_sel})
              ELSE d3
    IN d4

(* filter_plantios: the global filters, one after the other. *)
filter_plantios(df) ==
  IF df = <<>> THEN df
  ELSE
    LET d1 == SelectSeq(df, LAMBDA r : InPeriod(r.data_plantio, date_range))
        d2 == IF crit.especie_sel # "Todas" /\ has_especie_nome
              THEN SelectSeq(d1, LAMBDA r : r.especie_nome = {crit.especie_sel})
              ELSE d1
        d3 == IF crit.canteiro_sel # "Todos" /\ has_canteiro_nome
              THEN SelectSeq(d2, LAMBDA r : r.canteiro_nome = {crit.canteiro_sel})
              ELSE d2
        d4 == IF crit.responsavel_sel # "Todos"
              THEN SelectSeq(d3, LAMBDA r : r.responsavel = {crit.responsavel_sel})
              ELSE d3
    IN d4

EnhFilter ==
  /\ app = "app_enhanced" /\ pc = "filter"
  /\ plantios_f' = filter_plantios(plantios)
  /\ pc' = "ids"
  /\ UNCHANGED <<species_rate, monthly, cf, ev, report, outside>>
  /\ UNCHANGED <<app, files, today, crit, canteiros, especies, plantios, observ,
                 colheitas, eventos, has_canteiro_nome, has_especie_nome,
                 date_range, plantio_ids, colheitas_f, observ_f, eventos_f, kpi,
                 by_canteiro, by_especie, bed_status, messages>>

(* plantio_ids: the non-null plantio_id values of the selection. *)
selected_ids(df) == UNION Range(Column(df, "plantio_id"))

EnhIds ==
  /\ app = "app_enhanced" /\ pc = "ids"
  /\ plantio_ids' = selected_ids(plantios_f)
  /\ pc' = "propagate"
  /\ UNCHANGED <<species_rate, monthly, cf, ev, report, outside>>
  /\ UNCHANGED <<app, files, today, crit, canteiros, especies, plantios, observ,
                 colheitas, eventos, has_canteiro_nome, has_especie_nome,
                 date_range, plantios_f, colheitas_f, observ_f, eventos_f, kpi,
                 by_canteiro, by_especie, bed_status, messages>>

(* filter_by_plantios_table: a missing plantio_id is replaced by -1 before *)
(* the membership test; an empty plantio_ids gives an all-False mask.      *)
FillValue == -1

coerced_id(cell) == IF cell = NA THEN FillValue ELSE Val(cell)

(* The mask of a table whose empty id set is read as "no filter". *)
keep_row_no_filter(r, ids) ==
  IF ids # {} THEN coerced_id(r.plantio_id) \in ids ELSE TRUE

keep_row(r, ids) == IF ids # {} THEN coerced_id(r.plantio_id) \in ids ELSE FALSE

filter_by_plantios_table(df, ids) ==
  IF df = <<>> THEN <<>> ELSE SelectSeq(df, LAMBDA r : keep_row(r, ids))

(* A filter that drops the rows it does not keep from df itself. *)
df_after_filter_in_place(df, ids) == filter_by_plantios_table(df, ids)

(* The table handed to filter_by_plantios_table, after the call: the       *)
(* function reads df and returns df.loc[mask].copy(), df keeps every row.  *)
df_after_filter(df, ids) == df

EnhPropagate ==
  /\ app = "app_enhanced" /\ pc = "propagate"
  /\ colheitas_f' = filter_by_plantios_table(colheitas, plantio_ids)
  /\ observ_f' = filter_by_plantios_table(observ, plantio_ids)
  /\ eventos_f' = filter_by_plantios_table(eventos, plantio_ids)
  /\ colheitas' = df_after_filter(colheitas, plantio_ids)
  /\ observ' = df_after_filter(observ, plantio_ids)
  /\ eventos' = df_after_filter(eventos, plantio_ids)
  /\ pc' = "page"
  /\ UNCHANGED <<species_rate, monthly, cf, ev, report, outside>>
  /\ UNCHANGED <<app, files, today, crit, canteiros, especies, plantios,
                 has_canteiro_nome, has_especie_nome,
                 date_range, plantios_f, plantio_ids, kpi, by_canteiro,
                 by_especie, bed_status, messages>>

(* A ratio a / b of two naturals is the pair <<a, b>>, b > 0. *)
RatioGE(r, t) == r[1] * t[2] >= t[1] * r[2]

RatioLE(r, t) == r[1] * t[2] <= t[1] * r[2]

Zero == <<0, 1>>

One == <<1, 1>>

(* The thresholds 0.6 and 0.25 of the bed map. *)
GoodRate == <<3, 5>>

AttentionRate == <<1, 4>>

(* KPIs whose total is the number of harvest rows, not their quantity. *)
dashboard_kpis_rows ==
  [total_colhido |-> {Len(colheitas_f)},
   total_plantios |-> {Len(plantios_f)},
   plantios_colhidos |-> {NUnique(Column(colheitas_f, "plantio_id"))},
   taxa_sucesso |-> NA,
   num_observ |-> {Len(observ_f)}]

(* Dashboard KPIs, computed from the filtered views. *)
dashboard_kpis ==
  [total_colhido |-> {SumCells(Column(colheitas_f, "quantidade_colhida"))},
   total_plantios |-> {Len(plantios_f)},
   plantios_colhidos |-> {NUnique(Column(colheitas_f, "plantio_id"))},
   taxa_sucesso |-> NA,
   num_observ |-> {Len(observ_f)}]

(* merged: the filtered harvests with the bed and species of their planting. *)
dashboard_merged ==
  IF colheitas_f # <<>> /\ plantios_f # <<>>
  THEN Merge(colheitas_f, plantios_f, "plantio_id", {"especie_nome", "canteiro_nome"}, "left")
  ELSE <<>>

(* plantios_f[['plantio_id','especie_nome','canteiro_nome']] raises a      *)
(* KeyError when a join did not run and the column does not exist.         *)
dashboard_key_error ==
  /\ colheitas_f # <<>> /\ plantios_f # <<>>
  /\ ~(has_especie_nome /\ has_canteiro_nome)

enh_by_canteiro == SortDesc(GroupSum(dashboard_merged, "canteiro_nome", TRUE))

enh_by_especie == SortDesc(GroupSum(dashboard_merged, "especie_nome", TRUE))

(* Bed map: per bed of the canteiros table, the plantings of the selection *)
(* and those of them with a harvest.                                       *)
enh_totals(cid) ==
  IF cid = NA THEN 0
  ELSE NUnique(Column(SelectSeq(plantios_f, LAMBDA r : r.canteiro_id = cid), "plantio_id"))

(* A harvested count taken from the unfiltered harvests and plantings. *)
enh_harvested_unfiltered(cid) ==
  IF cid = NA \/ colheitas = <<>> \/ plantios = <<>> THEN 0
  ELSE NUnique(Column(
         SelectSeq(Merge(colheitas, plantios, "plantio_id", {"canteiro_id"}, "inner"),
                   LAMBDA r : r.canteiro_id = cid),
         "plantio_id"))

enh_harvested(cid) ==
  IF cid = NA \/ colheitas_f = <<>> \/ plantios_f = <<>> THEN 0
  ELSE NUnique(Column(
         SelectSeq(Merge(colheitas_f, plantios_f, "plantio_id", {"canteiro_id"}, "inner"),
                   LAMBDA r : r.canteiro_id = cid),
         "plantio_id"))

bed_rate(harvested_cnt, total) == IF total > 0 THEN <<harvested_cnt, total>> ELSE Zero

(* A palette whose 'good' band leaves its lower bound out. *)
enh_color_strict(rate) ==
  IF RatioGE(rate, GoodRate) /\ ~RatioLE(rate, GoodRate) THEN "#1B5E20"
  ELSE IF RatioGE(rate, AttentionRate) THEN "#F57F17" ELSE "#B71C1C"

enh_color(rate) ==
  IF RatioGE(rate, GoodRate) THEN "#1B5E20"
  ELSE IF RatioGE(rate, AttentionRate) THEN "#F57F17" ELSE "#B71C1C"

enh_bed_status ==
  [i \in 1..Len(canteiros) |->
     LET cid == canteiros[i].canteiro_id
         total == enh_totals(cid)
         harvested_cnt == enh_harvested(cid)
         rate == bed_rate(harvested_cnt, total)
     IN [canteiro_id |-> cid, nome |-> canteiros[i].nome, total |-> total,
         harvested |-> harvested_cnt, rate |-> rate, color |-> enh_color(rate)]]

(* The first days of the months of a year of 365 days (2025, 2026). *)
MonthStarts == <<0, 31, 59, 90, 120, 151, 181, 212, 243, 273, 304, 334>>

DaysInYear == 365

(* The calendar month of a day, counted from January 2025 = 1. *)
MonthOf(d) ==
  12 * (d \div DaysInYear)
    + Cardinality({k \in 1..12 : MonthStarts[k] <= d % DaysInYear})

(* dt.to_period('M').dt.to_timestamp(): the first day of the month. *)
MonthStart(m) == DaysInYear * ((m - 1) \div 12) + MonthStarts[((m - 1) % 12) + 1]

(* Série temporal mensal: the harvests of the view with a valid date       *)
(* inside (dr_start, dr_end); resample('M').sum() gives one bin for every  *)
(* month from the first to the last of them, an empty bin summing to 0.    *)
enh_monthly ==
  LET df_ts == SelectSeq(colheitas_f,
                 LAMBDA r : r.data_colheita # NA /\ InPeriod(r.data_colheita, date_range))
      months == {MonthOf(Val(df_ts[i].data_colheita)) : i \in 1..Len(df_ts)}
      first == CHOOSE m \in months : \A n \in months : m <= n
      last == CHOOSE m \in months : \A n \in months : m >= n
      bin(m) == SelectSeq(df_ts, LAMBDA r : MonthOf(Val(r.data_colheita)) = m)
  IN IF df_ts = <<>> THEN <<>>
     ELSE [k \in 1..(last - first + 1) |->
             [month |-> MonthStart(first + k - 1),
              quantidade_colhida |-> SumCells(Column(bin(first + k - 1), "quantidade_colhida"))]]

EnhDashboard ==
  /\ app = "app_enhanced" /\ pc = "page" /\ crit.page = "Dashboard"
  /\ kpi' = dashboard_kpis
  /\ IF dashboard_key_error
     THEN /\ pc' = "error"
          /\ UNCHANGED <<by_canteiro, by_especie, bed_status, monthly>>
     ELSE /\ by_canteiro' = enh_by_canteiro
          /\ by_especie' = enh_by_especie
          /\ bed_status' = enh_bed_status
          /\ monthly' = enh_monthly
          /\ pc' = "done"
  /\ UNCHANGED <<species_rate, cf, ev, report, outside>>
  /\ UNCHANGED <<app, files, today, crit, canteiros, especies, plantios, observ,
                 colheitas, eventos, has_canteiro_nome, has_especie_nome,
                 date_range, plantios_f, plantio_ids, colheitas_f, observ_f,
                 eventos_f, messages>>

(* Pages Colheitas and Manejo: df[df['plantio_id'].isin(plantios_f[        *)
(* 'plantio_id'])], applied only when the selection has rows; a missing id *)
(* is in the ids when a planting of the selection has none.                *)
isin_selection(df) ==
  IF plantios_f # <<>>
  THEN SelectSeq(df, LAMBDA r : r.plantio_id \in Range(Column(plantios_f, "plantio_id")))
  ELSE df

(* cf: a copy of the harvests, filtered, its quantities made numeric; it is *)
(* the table shown and the table of the download button.                   *)
colheitas_page ==
  LET f == isin_selection(colheitas)
  IN [i \in 1..Len(f) |-> [f[i] EXCEPT !.quantidade_colhida = fillna(@, 0)]]

EnhColheitas ==
  /\ app = "app_enhanced" /\ pc = "page" /\ crit.page = "Colheitas"
  /\ cf' = colheitas_page
  /\ pc' = "done"
  /\ UNCHANGED <<species_rate, monthly, ev, report, outside>>
  /\ UNCHANGED <<app, files, today, crit, canteiros, especies, plantios, observ,
                 colheitas, eventos, has_canteiro_nome, has_especie_nome,
                 date_range, plantios_f, plantio_ids, colheitas_f, observ_f,
                 eventos_f, kpi, by_canteiro, by_especie, bed_status, messages>>

(* ev: a copy of the events, filtered the same way. *)
manejo_page == isin_selection(eventos)

EnhManejo ==
  /\ app = "app_enhanced" /\ pc = "page" /\ crit.page = "Manejo"
  /\ ev' = manejo_page
  /\ pc' = "done"
  /\ UNCHANGED <<species_rate, monthly, cf, report, outside>>
  /\ UNCHANGED <<app, files, today, crit, canteiros, especies, plantios, observ,
                 colheitas, eventos, has_canteiro_nome, has_especie_nome,
                 date_range, plantios_f, plantio_ids, colheitas_f, observ_f,
                 eventos_f, kpi, by_canteiro, by_especie, bed_status, messages>>

(* Page Relatórios and make_pdf_report_canteiro.  The beds on offer are the *)
(* bed names of the selection or, when it has none, those of the beds.     *)
available_canteiros ==
  LET of_view == IF plantios_f # <<>> /\ has_canteiro_nome
                 THEN UNION Range(Column(plantios_f, "canteiro_nome")) ELSE {}
  IN IF of_view # {} THEN of_view
     ELSE IF canteiros # <<>> THEN UNION Range(Column(canteiros, "nome")) ELSE {}

(* subset: the plantings of the selection in the bed. *)
report_subset(can_sel) ==
  IF plantios_f = <<>> THEN <<>>
  ELSE SelectSeq(plantios_f, LAMBDA r : r.canteiro_nome = {can_sel})

(* ch: the propagated harvests or, when there are none, all the harvests. *)
report_ch == IF colheitas_f # <<>> THEN colheitas_f ELSE colheitas

(* ch.merge(subset[['plantio_id']], on='plantio_id', how='inner'), summed. *)
report_total(can_sel) ==
  LET subset == report_subset(can_sel)
  IN IF subset = <<>> \/ report_ch = <<>> THEN 0
     ELSE SumCells(Column(Merge(report_ch, subset, "plantio_id", {}, "inner"),
                          "quantidade_colhida"))

(* The PDF merges subset[['plantio_id','especie_nome']]: without the        *)
(* species column the KeyError is swallowed and the total stays 0.         *)
pdf_total(can_sel) ==
  IF has_especie_nome THEN report_total(can_sel) ELSE 0

EnhRelatorios ==
  /\ app = "app_enhanced" /\ pc = "page" /\ crit.page = "Relatórios"
  /\ IF available_canteiros = {}
     THEN report' = NoReport
     ELSE \E can_sel \in available_canteiros : \E gerar \in BOOLEAN :
            report' = [can_sel |-> {can_sel},
                       total_plantios |-> Len(report_subset(can_sel)),
                       total_colhido |-> report_total(can_sel),
                       pdf_total_colhido |-> IF gerar THEN {pdf_total(can_sel)} ELSE NA]
  /\ pc' = "done"
  /\ UNCHANGED <<species_rate, monthly, cf, ev, outside>>
  /\ UNCHANGED <<app, files, today, crit, canteiros, especies, plantios, observ,
                 colheitas, eventos, has_canteiro_nome, has_especie_nome,
                 date_range, plantios_f, plantio_ids, colheitas_f, observ_f,
                 eventos_f, kpi, by_canteiro, by_especie, bed_status, messages>>

-----------------------------------------------------------------------------
(* app2.py                                                                 *)

(* load_data: st.error for every missing file, then pd.read_csv raises on  *)
(* the first missing one.                                                  *)
App2Load ==
  /\ app = "app2" /\ pc = "load"
  /\ messages' = {<<"error", "Arquivo ausente", n>> : n \in files.absent}
  /\ IF files.absent # {}
     THEN /\ pc' = "error"
          /\ UNCHANGED <<canteiros, especies, plantios, observ, colheitas, eventos>>
     ELSE /\ canteiros' = WithIndex(files["canteiros"])
          /\ especies' = WithIndex(files["especies"])
          /\ plantios' = WithIndex(files["plantios"])
          /\ observ' = WithIndex(files["observacoes"])
          /\ colheitas' = read_colheitas(WithIndex(files["colheitas"]))
          /\ eventos' = WithIndex(files["eventos"])
          /\ pc' = "join"
  /\ UNCHANGED <<species_rate, monthly, cf, ev, report, outside>>
  /\ UNCHANGED <<app, files, today, crit, has_canteiro_nome, has_especie_nome,
                 date_range, plantios_f, plantio_ids, colheitas_f, observ_f,
                 eventos_f, kpi, by_canteiro, by_especie, bed_status>>

(* Join helpers: two unconditional left joins. *)
App2Join ==
  /\ app = "app2" /\ pc = "join"
  /\ plantios' = JoinEspecies(JoinCanteiros(plantios, canteiros), especies)
  /\ has_canteiro_nome' = TRUE
  /\ has_especie_nome' = TRUE
  /\ pc' = "sidebar"
  /\ UNCHANGED <<species_rate, monthly, cf, ev, report, outside>>
  /\ UNCHANGED <<app, files, today, crit, canteiros, especies, observ, colheitas,
                 eventos, date_range, plantios_f, plantio_ids, colheitas_f,
                 observ_f, eventos_f, kpi, by_canteiro, by_especie, bed_status,
                 messages>>

(* Sidebar: the period defaults to (first planting date, today + 30 days). *)
DaysBack2 == 180

DaysAhead2 == 30

default_start ==
  IF plantios # <<>> THEN MinCell(Column(plantios, "data_plantio")) ELSE {today - DaysBack2}

default_end == {today + DaysAhead2}

App2DefaultPeriod == <<default_start, default_end>>

App2Sidebar ==
  /\ app = "app2" /\ pc = "sidebar"
  /\ date_range' = DateInput(App2DefaultPeriod)
  /\ \/ pc' = "filter"
     \/ /\ NA \in Range(App2DefaultPeriod)
        /\ pc' = "error"
  /\ UNCHANGED <<species_rate, monthly, cf, ev, report, outside>>
  /\ UNCHANGED <<app, files, today, crit, canteiros, especies, plantios, observ,
                 colheitas, eventos, has_canteiro_nome, has_especie_nome,
                 plantios_f, plantio_ids, colheitas_f, observ_f, eventos_f, kpi,
                 by_canteiro, by_especie, bed_status, messages>>

(* str.strip(): leading and trailing blanks removed. *)
RECURSIVE lstrip(_)
lstrip(text) ==
  IF text # <<>> /\ Head(text) = " " THEN lstrip(Tail(text)) ELSE text

Reverse(text) == [i \in 1..Len(text) |-> text[Len(text) + 1 - i]]

strip(text) == Reverse(lstrip(Reverse(lstrip(text))))

(* str.lower() *)
lower(text) == [i \in 1..Len(text) |-> IF text[i] = "A" THEN "a" ELSE text[i]]

(* re.search(pat, text): "." stands for any character, the other           *)
(* characters of the alphabet for themselves.                              *)
re_search(pat, text) ==
  \E start \in 0..(Len(text) - Len(pat)) :
     \A k \in 1..Len(pat) : pat[k] = "." \/ pat[k] = text[start + k]

regex_error(pat) == \E k \in 1..Len(pat) : pat[k] = "("

(* Series.fillna("").str.lower().str.contains(s) *)
str_contains(cell, s) == re_search(s, lower(IF cell = NA THEN <<>> ELSE Val(cell)))

notes_mask(r, s) == str_contains(r.notas, s)

comment_mask(o, s) == str_contains(o.comentarios, s)

(* Filtragem dos plantios. *)
app2_filter(df) ==
  LET p0 == SelectSeq(df, LAMBDA r : InPeriod(r.data_plantio, date_range))
      p1 == IF crit.especie_sel # "Todas"
            THEN SelectSeq(p0, LAMBDA r : r.especie_nome = {crit.especie_sel}) ELSE p0
      p2 == IF crit.canteiro_sel # "Todos"
            THEN SelectSeq(p1, LAMBDA r : r.canteiro_nome = {crit.canteiro_sel}) ELSE p1
      p3 == IF crit.responsavel_sel # "Todos"
            THEN SelectSeq(p2, LAMBDA r : r.responsavel = {crit.responsavel_sel}) ELSE p2
      p4 == IF crit.metodo_sel # "Todos"
            THEN SelectSeq(p3, LAMBDA r : r.metodo = {crit.metodo_sel}) ELSE p3
      harvested_ids == Range(Column(colheitas, "plantio_id"))
      p5 == IF crit.only_active
            THEN SelectSeq(p4, LAMBDA r : r.plantio_id \notin harvested_ids) ELSE p4
      s == lower(strip(crit.search_text))
      plantios_with_obs ==
        {observ[j].plantio_id : j \in {k \in 1..Len(observ) : comment_mask(observ[k], s)}}
      p6 == IF strip(crit.search_text) # <<>>
            THEN SelectSeq(p5, LAMBDA r : notes_mask(r, s) \/ r.plantio_id \in plantios_with_obs)
            ELSE p5
  IN p6

(* str.contains compiles the term as a regular expression before any row   *)
(* is looked at; an unbalanced parenthesis raises re.error.                 *)
app2_filter_error ==
  /\ strip(crit.search_text) # <<>>
  /\ regex_error(lower(strip(crit.search_text)))

App2Filter ==
  /\ app = "app2" /\ pc = "filter"
  /\ IF app2_filter_error
     THEN pc' = "error" /\ UNCHANGED plantios_f
     ELSE pc' = "kpis" /\ plantios_f' = app2_filter(plantios)
  /\ UNCHANGED <<species_rate, monthly, cf, ev, report, outside>>
  /\ UNCHANGED <<app, files, today, crit, canteiros, especies, plantios, observ,
                 colheitas, eventos, has_canteiro_nome, has_especie_nome,
                 date_range, plantio_ids, colheitas_f, observ_f, eventos_f, kpi,
                 by_canteiro, by_especie, bed_status, messages>>

(* Top KPIs: computed from the whole tables. *)
taxa(colhidos, num_plantios) == IF num_plantios > 0 THEN <<colhidos, num_plantios>> ELSE Zero

top_kpis ==
  LET num_plantios == Len(plantios)
      plantios_com_colheita == NUnique(Column(colheitas, "plantio_id"))
  IN [total_colhido |-> {SumCells(Column(colheitas, "quantidade_colhida"))},
      total_plantios |-> {num_plantios},
      plantios_colhidos |-> {plantios_com_colheita},
      taxa_sucesso |-> {taxa(plantios_com_colheita, num_plantios)},
      num_observ |-> {Len(observ)}]

App2Kpis ==
  /\ app = "app2" /\ pc = "kpis"
  /\ kpi' = top_kpis
  /\ pc' = "map"
  /\ UNCHANGED <<species_rate, monthly, cf, ev, report, outside>>
  /\ UNCHANGED <<app, files, today, crit, canteiros, especies, plantios, observ,
                 colheitas, eventos, has_canteiro_nome, has_especie_nome,
                 date_range, plantios_f, plantio_ids, colheitas_f, observ_f,
                 eventos_f, by_canteiro, by_especie, bed_status, messages>>

(* Mapa esquemático: colh is the right join of the harvests on the         *)
(* plantings, so it holds every planting, harvested or not.                *)
app2_color(rate) ==
  IF RatioGE(rate, GoodRate) THEN "#2ECC71"
  ELSE IF RatioGE(rate, AttentionRate) THEN "#F1C40F" ELSE "#E74C3C"

app2_status ==
  [i \in 1..Len(canteiros) |->
     LET cid == canteiros[i].canteiro_id
         total == Len(SelectSeq(plantios, LAMBDA r : cid # NA /\ r.canteiro_id = cid))
         colh == Merge(plantios, colheitas, "plantio_id", {"quantidade_colhida"}, "left")
         colh_cnt == NUnique(Column(
                       SelectSeq(colh, LAMBDA r : cid # NA /\ r.canteiro_id = cid),
                       "plantio_id"))
         rate == bed_rate(colh_cnt, total)
     IN [canteiro_id |-> cid, nome |-> canteiros[i].nome, total |-> total,
         harvested |-> colh_cnt, rate |-> rate, color |-> app2_color(rate)]]

App2Map ==
  /\ app = "app2" /\ pc = "map"
  /\ bed_status' = app2_status
  /\ pc' = "prod"
  /\ UNCHANGED <<species_rate, monthly, cf, ev, report, outside>>
  /\ UNCHANGED <<app, files, today, crit, canteiros, especies, plantios, observ,
                 colheitas, eventos, has_canteiro_nome, has_especie_nome,
                 date_range, plantios_f, plantio_ids, colheitas_f, observ_f,
                 eventos_f, kpi, by_canteiro, by_especie, messages>>

(* Produção por espécie: harvests joined to plantings and species, then    *)
(* summed by species name.                                                 *)
prod_rows ==
  LET j1 == Merge(colheitas, plantios, "plantio_id", {"especie_id"}, "left")
      j2 == Merge(j1, especies, "especie_id", {"nome_comum"}, "left")
  IN IF crit.especie_sel # "Todas"
     THEN SelectSeq(j2, LAMBDA r : r.nome_comum = {crit.especie_sel}) ELSE j2

app2_prod_sum == SortDesc(GroupSum(prod_rows, "nome_comum", TRUE))

App2Prod ==
  /\ app = "app2" /\ pc = "prod"
  /\ by_especie' = app2_prod_sum
  /\ pc' = "rate"
  /\ UNCHANGED <<species_rate, monthly, cf, ev, report, outside>>
  /\ UNCHANGED <<app, files, today, crit, canteiros, especies, plantios, observ,
                 colheitas, eventos, has_canteiro_nome, has_especie_nome,
                 date_range, plantios_f, plantio_ids, colheitas_f, observ_f,
                 eventos_f, kpi, by_canteiro, bed_status, messages>>

(* Taxa de sucesso por espécie. colheitas[['plantio_id']].drop_duplicates() *)
(* keeps one row per harvest plantio_id, a missing one included.           *)
harvest_keys == {colheitas[i].plantio_id : i \in 1..Len(colheitas)}

(* plantios.merge(..., on='plantio_id', how='left', indicator=True): one    *)
(* row per planting row, "both" when its plantio_id equals a harvest's     *)
(* (null keys match null keys).                                            *)
joined ==
  [i \in 1..Len(plantios) |->
     [especie_nome |-> plantios[i].especie_nome,
      indicator |-> IF plantios[i].plantio_id \in harvest_keys
                    THEN "both" ELSE "left_only"]]

RECURSIVE SortRateDesc(_)
SortRateDesc(G) ==
  IF G = {} THEN <<>>
  ELSE LET top == CHOOSE g \in G : \A h \in G :
                    \/ g.especie_nome = h.especie_nome
                    \/ h.sucesso_rate = NA
                    \/ /\ g.sucesso_rate # NA
                       /\ ~RatioLE(Val(g.sucesso_rate), Val(h.sucesso_rate))
                    \/ /\ g.sucesso_rate # NA
                       /\ RatioGE(Val(g.sucesso_rate), Val(h.sucesso_rate))
                       /\ Rank(g.especie_nome) <= Rank(h.especie_nome)
       IN <<top>> \o SortRateDesc(G \ {top})

(* groupby('especie_nome').apply(both / rows): the groups are the species   *)
(* names of the plantings (a missing name makes no group); then             *)
(* sort_values(ascending=False) and dropna().                               *)
app2_rate ==
  LET names == {joined[i].especie_nome : i \in 1..Len(joined)} \ {NA}
      df(k) == SelectSeq(joined, LAMBDA r : r.especie_nome = k)
      value(g) ==
        IF Len(g) > 0
        THEN {<<Len(SelectSeq(g, LAMBDA r : r.indicator = "both")), Len(g)>>}
        ELSE NA
      G == {[especie_nome |-> k, sucesso_rate |-> value(df(k))] : k \in names}
  IN SelectSeq(SortRateDesc(G), LAMBDA r : r.sucesso_rate # NA)

App2Rate ==
  /\ app = "app2" /\ pc = "rate"
  /\ species_rate' = app2_rate
  /\ pc' = "done"
  /\ UNCHANGED <<app, files, today, crit, canteiros, especies, plantios, observ,
                 colheitas, eventos, has_canteiro_nome, has_especie_nome,
                 date_range, plantios_f, plantio_ids, colheitas_f, observ_f,
                 eventos_f, kpi, by_canteiro, by_especie, bed_status, monthly,
                 cf, ev, report, outside, messages>>

NextApp2 ==
  \/ App2Load \/ App2Join \/ App2Sidebar \/ App2Filter \/ App2Kpis \/ App2Map
  \/ App2Prod \/ App2Rate

-----------------------------------------------------------------------------
(* app.py                                                                  *)

(* load: pd.read_csv raises on a missing file. *)
AppLoad ==
  /\ app = "app" /\ pc = "load"
  /\ IF files.absent # {}
     THEN /\ pc' = "error"
          /\ UNCHANGED <<canteiros, especies, plantios, observ, colheitas, eventos>>
     ELSE /\ canteiros' = WithIndex(files["canteiros"])
          /\ especies' = WithIndex(files["especies"])
          /\ plantios' = WithIndex(files["plantios"])
          /\ observ' = WithIndex(files["observacoes"])
          /\ colheitas' = read_colheitas(WithIndex(files["colheitas"]))
          /\ eventos' = WithIndex(files["eventos"])
          /\ pc' = "kpis"
  /\ UNCHANGED <<species_rate, monthly, cf, ev, report, outside>>
  /\ UNCHANGED <<app, files, today, crit, has_canteiro_nome, has_especie_nome,
                 date_range, plantios_f, plantio_ids, colheitas_f, observ_f,
                 eventos_f, kpi, by_canteiro, by_especie, bed_status, messages>>

(* KPIs: taxa_sucesso = plantios_colhidos / num_plantios, 0 without plantings. *)
app_kpis ==
  LET num_plantios == Len(plantios)
      plantios_colhidos == NUnique(Column(colheitas, "plantio_id"))
  IN [total_colhido |-> {SumCells(Column(colheitas, "quantidade_colhida"))},
      total_plantios |-> {num_plantios},
      plantios_colhidos |-> {plantios_colhidos},
      taxa_sucesso |-> {taxa(plantios_colhidos, num_plantios)},
      num_observ |-> NA]

AppKpis ==
  /\ app = "app" /\ pc = "kpis"
  /\ kpi' = app_kpis
  /\ pc' = "sidebar"
  /\ UNCHANGED <<species_rate, monthly, cf, ev, report, outside>>
  /\ UNCHANGED <<app, files, today, crit, canteiros, especies, plantios, observ,
                 colheitas, eventos, has_canteiro_nome, has_especie_nome,
                 date_range, plantios_f, plantio_ids, colheitas_f, observ_f,
                 eventos_f, by_canteiro, by_especie, bed_status, messages>>

(* Filters: the period defaults to 2025-07-01 .. 2025-12-31. *)
PeriodoStart == 181

PeriodoEnd == 364

AppDefaultPeriod == <<{PeriodoStart}, {PeriodoEnd}>>

AppSidebar ==
  /\ app = "app" /\ pc = "sidebar"
  /\ date_range' = DateInput(AppDefaultPeriod)
  /\ pc' = "filter"
  /\ UNCHANGED <<species_rate, monthly, cf, ev, report, outside>>
  /\ UNCHANGED <<app, files, today, crit, canteiros, especies, plantios, observ,
                 colheitas, eventos, has_canteiro_nome, has_especie_nome,
                 plantios_f, plantio_ids, colheitas_f, observ_f, eventos_f, kpi,
                 by_canteiro, by_especie, bed_status, messages>>

(* Apply filters: species and bed by the id of the first row with the      *)
(* chosen name (no filter when no row has it), then the period.            *)
first_id(df, namef, idf, name) ==
  LET m == SelectSeq(df, LAMBDA r : r[namef] = {name})
  IN IF m = <<>> THEN <<>> ELSE <<m[1][idf]>>

(* int(ids.iloc[0]) raises when the id is NaN. *)
app_filter_error ==
  \/ /\ crit.especie_sel # "Todas"
     /\ first_id(especies, "nome_comum", "especie_id", crit.especie_sel) = <<NA>>
  \/ /\ crit.canteiro_sel # "Todos"
     /\ first_id(canteiros, "nome", "canteiro_id", crit.canteiro_sel) = <<NA>>

app_filter(df) ==
  LET ids == first_id(especies, "nome_comum", "especie_id", crit.especie_sel)
      p1 == IF crit.especie_sel # "Todas" /\ ids # <<>>
            THEN SelectSeq(df, LAMBDA r : r.especie_id = ids[1]) ELSE df
      cid == first_id(canteiros, "nome", "canteiro_id", crit.canteiro_sel)
      p2 == IF crit.canteiro_sel # "Todos" /\ cid # <<>>
            THEN SelectSeq(p1, LAMBDA r : r.canteiro_id = cid[1]) ELSE p1
  IN SelectSeq(p2, LAMBDA r : InPeriod(r.data_plantio, date_range))

AppFilter ==
  /\ app = "app" /\ pc = "filter"
  /\ IF app_filter_error
     THEN pc' = "error" /\ UNCHANGED plantios_f
     ELSE pc' = "prod" /\ plantios_f' = app_filter(plantios)
  /\ UNCHANGED <<species_rate, monthly, cf, ev, report, outside>>
  /\ UNCHANGED <<app, files, today, crit, canteiros, especies, plantios, observ,
                 colheitas, eventos, has_canteiro_nome, has_especie_nome,
                 date_range, plantio_ids, colheitas_f, observ_f, eventos_f, kpi,
                 by_canteiro, by_especie, bed_status, messages>>

(* Produção por espécie: groupby(..., dropna=False) keeps the NaN group. *)
app_prod_sum == SortDesc(GroupSum(prod_rows, "nome_comum", FALSE))

AppProd ==
  /\ app = "app" /\ pc = "prod"
  /\ by_especie' = app_prod_sum
  /\ pc' = "done"
  /\ UNCHANGED <<species_rate, monthly, cf, ev, report, outside>>
  /\ UNCHANGED <<app, files, today, crit, canteiros, especies, plantios, observ,
                 colheitas, eventos, has_canteiro_nome, has_especie_nome,
                 date_range, plantios_f, plantio_ids, colheitas_f, observ_f,
                 eventos_f, kpi, by_canteiro, bed_status, messages>>

NextApp == AppLoad \/ AppKpis \/ AppSidebar \/ AppFilter \/ AppProd

NextEnh ==
  \/ EnhLoad \/ EnhJoin \/ EnhSidebar \/ EnhNormalize \/ EnhFilter \/ EnhIds
  \/ EnhPropagate \/ EnhDashboard

-----------------------------------------------------------------------------
(* A widget change: the new criteria, and the script runs again from the   *)
(* top with no variable set.  The widgets a script does not have keep      *)
(* their default.                                                          *)

Widgets(a) ==
  IF a = "app" THEN {"period", "especie_sel", "canteiro_sel"}
  ELSE IF a = "app2"
       THEN {"period", "especie_sel", "canteiro_sel", "responsavel_sel",
             "metodo_sel", "only_active", "search_text"}
       ELSE {"period", "especie_sel", "canteiro_sel", "responsavel_sel", "page"}

SetFilter(Crits) ==
  /\ pc \in {"done", "error"}
  /\ \E c \in Crits :
       /\ \A w \in DOMAIN DefaultCrit \ Widgets(app) : c[w] = DefaultCrit[w]
       /\ crit' = c
  /\ FreshRun
  /\ prev' = NoPrev
  /\ UNCHANGED <<app, files, today, photo_metadata, uploads, clock>>

(* A widget change that narrows the criteria: a criterion goes from 'all' *)
(* to one value, or the period shrinks inside the period of the run.  The  *)
(* views of the run before the change are remembered.                      *)
Narrows(c) ==
  /\ c # crit
  /\ \A w \in {"especie_sel", "canteiro_sel", "responsavel_sel", "metodo_sel"} :
        c[w] = crit[w] \/ crit[w] \in {"Todas", "Todos"}
  /\ c.only_active = crit.only_active
  /\ c.search_text = crit.search_text
  /\ c.page = crit.page
  /\ \/ c.period = crit.period
     \/ /\ c.period # <<>>
        /\ c.period[1] <= c.period[2]
        /\ \E s \in date_range[1] : \E e \in date_range[2] :
              s <= c.period[1] /\ c.period[2] <= e

Narrow(Crits) ==
  /\ pc = "done"
  /\ \E c \in Crits :
       /\ \A w \in DOMAIN DefaultCrit \ Widgets(app) : c[w] = DefaultCrit[w]
       /\ Narrows(c)
       /\ crit' = c
  /\ prev' = [run |-> TRUE, plantios_f |-> plantios_f, colheitas_f |-> colheitas_f,
              observ_f |-> observ_f, eventos_f |-> eventos_f]
  /\ FreshRun
  /\ UNCHANGED <<app, files, today, photo_metadata, uploads, clock>>

-----------------------------------------------------------------------------
(* The CSV files the runs read.                                            *)

Today == 300

BedA == [canteiro_id |-> {1}, nome |-> {"A"}, area_m2 |-> {10}]

Tomato == [especie_id |-> {1}, nome_comum |-> {"Tomato"}]

Store(can, esp, pl, ob, co, evt, abs) ==
  [canteiros |-> can, especies |-> esp, plantios |-> pl, observacoes |-> ob,
   colheitas |-> co, eventos |-> evt, absent |-> abs]

Crits(periods, especies_, canteiros_, responsaveis, metodos, actives) ==
  [period : periods, especie_sel : especies_, canteiro_sel : canteiros_,
   responsavel_sel : responsaveis, metodo_sel : metodos, only_active : actives,
   search_text : {<<>>}, page : {"Dashboard"}]

WithPage(C, pages) == {[c EXCEPT !.page = p] : c \in C, p \in pages}

WithSearch(C, texts) == {[c EXCEPT !.search_text = t] : c \in C, t \in texts}

(* Propagation: plantings and child rows over every kind of plantio_id.    *)
PropPlantioRows ==
  [plantio_id : Opt({FillValue, 100}), canteiro_id : {{1}}, especie_id : Opt({1}),
   data_plantio : {{0}}, responsavel : {{"Ana"}}, metodo : {NA}]

PropColheitaRows ==
  [plantio_id : Opt({100, 101}), data_colheita : {{59}}, quantidade_colhida : {"5"}]

PropObservRows == [plantio_id : Opt({100})]

PropEventoRows == [plantio_id : Opt({101})]

PropStores ==
  {Store(<<BedA>>, <<Tomato>>, pl, ob, co, evt, {}) :
     pl \in Tables(PropPlantioRows, MaxPlantios),
     co \in Tables(PropColheitaRows, MaxColheitas),
     ob \in Tables(PropObservRows, MaxChild),
     evt \in Tables(PropEventoRows, MaxChild)}

PropCrits == Crits({<<>>}, {"Todas", "Tomato", "Basil"}, {"Todos"}, {"Todos"}, {"Todos"}, {FALSE})

Init == InitWith({"app_enhanced"}, PropStores, {Today})

Next == NextEnh \/ SetFilter(PropCrits)

Spec == Init /\ [][Next]_vars

-----------------------------------------------------------------------------
(* Selection: one planting over every combination of its filtered          *)
(* attributes, the species and bed tables with and without rows.           *)

SelPlantioRows ==
  [plantio_id : {{100}}, canteiro_id : Opt({1}), especie_id : Opt({1}),
   data_plantio : Opt({0, 400}), responsavel : Opt({"Ana"}), metodo : Opt({"Muda"})]

SelStores ==
  {Store(can, esp, pl, <<>>, <<>>, <<>>, {}) :
     can \in {<<>>, <<BedA>>}, esp \in {<<>>, <<Tomato>>},
     pl \in Tables(SelPlantioRows, MaxSelPlantios)}

SelCrits ==
  Crits({<<>>, <<0, 200>>, <<200, 400>>}, {"Todas", "Tomato"}, {"Todos", "A"},
        {"Todos", "Ana", "N/A"}, {"Todos", "Muda"}, {FALSE})

InitSel == InitWith({"app", "app2", "app_enhanced"}, SelStores, {Today})

NextSel == NextEnh \/ NextApp2 \/ NextApp \/ SetFilter(SelCrits)

SpecSel == InitSel /\ [][NextSel]_vars

-----------------------------------------------------------------------------
(* Aggregation: one bed and one species; plantings with and without a      *)
(* resolvable bed or species; harvests of known, unknown and missing       *)
(* plantings.                                                              *)

AggPlantioRows ==
  [plantio_id : {{100}, {101}}, canteiro_id : Opt({1}), especie_id : Opt({1}),
   data_plantio : {{0}}, responsavel : {{"Ana"}}, metodo : {NA}]

AggColheitaRows ==
  [plantio_id : Opt({100, 999}), data_colheita : {{59}}, quantidade_colhida : {"5"}]

AggStores ==
  {Store(<<BedA>>, <<Tomato>>, pl, <<>>, co, <<>>, {}) :
     pl \in Tables(AggPlantioRows, MaxPlantios),
     co \in Tables(AggColheitaRows, MaxColheitas)}

AggCrits == Crits({<<>>}, {"Todas", "Tomato", "Basil"}, {"Todos"}, {"Todos"}, {"Todos"}, {FALSE})

InitAgg == InitWith({"app", "app2", "app_enhanced"}, AggStores, {Today})

NextAgg == NextEnh \/ NextApp2 \/ NextApp \/ SetFilter(AggCrits)

SpecAgg == InitAgg /\ [][NextAgg]_vars

-----------------------------------------------------------------------------
(* Propagation of the selection to the child tables (app_enhanced.py).     *)

(* The run has computed colheitas_f, observ_f and eventos_f. *)
Propagated ==
  /\ app = "app_enhanced"
  /\ \/ pc \in {"page", "done"}
     \/ pc = "error" /\ kpi # NoKpi

IsMember(r, ids) == r.plantio_id # NA /\ Val(r.plantio_id) \in ids

(* kept is df restricted to exactly the rows whose plantio_id is in ids. *)
ExactlyMembers(df, kept, ids) ==
  kept = SelectSeq(df, LAMBDA r : IsMember(r, ids))

(* C1: when the selected planting-id set is empty, the propagated harvest, *)
(* observation and event tables are all empty, whatever the child tables   *)
(* hold.                                                                   *)
C1_EmptySelectionEmptyChildren ==
  (Propagated /\ plantio_ids = {}) =>
     (colheitas_f = <<>> /\ observ_f = <<>> /\ eventos_f = <<>>)

C1_Witness ==
  /\ Propagated /\ plantio_ids = {}
  /\ plantios # <<>> /\ colheitas # <<>> /\ observ # <<>> /\ eventos # <<>>
  /\ crit.especie_sel = "Basil"
  /\ colheitas_f = <<>>

(* C2: a child row is in the propagated table if and only if its           *)
(* plantio_id is a member of the selection's id set, for the harvests, the *)
(* observations and the events.                                            *)
C2_RetainedIffMember ==
  Propagated =>
     /\ ExactlyMembers(colheitas, colheitas_f, plantio_ids)
     /\ ExactlyMembers(observ, observ_f, plantio_ids)
     /\ ExactlyMembers(eventos, eventos_f, plantio_ids)

(* C3: a child row whose plantio_id is missing is in no propagated table,  *)
(* whatever ids the selection holds.                                       *)
C3_MissingIdExcluded ==
  Propagated =>
     \A t \in {colheitas_f, observ_f, eventos_f} :
        \A i \in 1..Len(t) : t[i].plantio_id # NA

-----------------------------------------------------------------------------
(* Selection.                                                              *)

(* The run has computed the selection plantios_f. *)
Selected ==
  \/ app = "app_enhanced" /\ pc \in {"ids", "propagate", "page", "done"}
  \/ app = "app2" /\ pc \in {"kpis", "map", "prod", "rate", "done"}
  \/ app = "app" /\ pc \in {"prod", "done"}

(* The planting date lies in the period, both ends included. *)
WithinPeriod(r) ==
  /\ r.data_plantio # NA /\ date_range[1] # NA /\ date_range[2] # NA
  /\ Val(date_range[1]) <= Val(r.data_plantio)
  /\ Val(r.data_plantio) <= Val(date_range[2])

(* The name a planting has under a joined column; none when the column    *)
(* was never joined.                                                       *)
NameCell(r, f) == IF f \in DOMAIN r THEN r[f] ELSE NA

Matches(sel, all, cell) == sel = all \/ cell = {sel}

SatisfiesAll(r) ==
  /\ WithinPeriod(r)
  /\ Matches(crit.especie_sel, "Todas", NameCell(r, "especie_nome"))
  /\ Matches(crit.canteiro_sel, "Todos", NameCell(r, "canteiro_nome"))
  /\ Matches(crit.responsavel_sel, "Todos", r.responsavel)
  /\ Matches(crit.metodo_sel, "Todos", r.metodo)

(* app_enhanced.py joins the species (bed) names only when the species     *)
(* (bed) table has rows; app2.py always joins them.                        *)
SpeciesJoined == app = "app2" \/ especies # <<>>

BedsJoined == app = "app2" \/ canteiros # <<>>

SatisfiesJoined(r) ==
  /\ WithinPeriod(r)
  /\ SpeciesJoined => Matches(crit.especie_sel, "Todas", NameCell(r, "especie_nome"))
  /\ BedsJoined => Matches(crit.canteiro_sel, "Todos", NameCell(r, "canteiro_nome"))
  /\ Matches(crit.responsavel_sel, "Todos", r.responsavel)
  /\ Matches(crit.metodo_sel, "Todos", r.metodo)

C5_DefaultsSelectEveryDated ==
  (Selected /\ crit = DefaultCrit) =>
     \A i \in 1..Len(plantios) :
        plantios[i].data_plantio # NA => plantios[i] \in Range(plantios_f)

-----------------------------------------------------------------------------
(* Aggregation.                                                            *)

(* One bed (id 1, area 10), one species Tomato, planting 100 in bed 1 of   *)
(* species 1 planted 2025-01-01, one harvest of planting 100 on 2025-03-01 *)
(* of quantity 5.                                                          *)
ScenarioPlantio ==
  [plantio_id |-> {100}, canteiro_id |-> {1}, especie_id |-> {1},
   data_plantio |-> {0}, responsavel |-> {"Ana"}, metodo |-> NA]

ScenarioColheita ==
  [plantio_id |-> {100}, data_colheita |-> {59}, quantidade_colhida |-> "5"]

Scenario ==
  files = Store(<<BedA>>, <<Tomato>>, <<ScenarioPlantio>>, <<>>, <<ScenarioColheita>>,
                <<>>, {})

(* 0 / 0: the rate of no planting. *)
Undefined == <<0, 0>>

(* The success rate of a run: the rate it reports, or else the ratio of    *)
(* the two counts it reports (harvested plantings, plantings).             *)
SuccessRate ==
  IF kpi.taxa_sucesso # NA THEN Val(kpi.taxa_sucesso)
  ELSE <<Val(kpi.plantios_colhidos), Val(kpi.total_plantios)>>

StatusClass(color) ==
  IF color \in {"#1B5E20", "#2ECC71"} THEN "good"
  ELSE IF color \in {"#F57F17", "#F1C40F"} THEN "attention" ELSE "critical"

BedOneIs(total, harvested_cnt, rate, class) ==
  /\ Len(bed_status) = 1
  /\ bed_status[1].canteiro_id = {1}
  /\ bed_status[1].total = total
  /\ bed_status[1].harvested = harvested_cnt
  /\ bed_status[1].rate = rate
  /\ StatusClass(bed_status[1].color) = class

C7_NoFilterScenario ==
  (app \in {"app_enhanced", "app2"} /\ Scenario /\ pc = "done" /\ crit = DefaultCrit) =>
     /\ kpi.total_colhido = {5}
     /\ kpi.total_plantios = {1}
     /\ SuccessRate = One
     /\ BedOneIs(1, 1, One, "good")

C7_Witness ==
  /\ app = "app_enhanced" /\ Scenario /\ pc = "done" /\ crit = DefaultCrit
  /\ Len(plantios_f) = 1 /\ Len(colheitas_f) = 1
  /\ kpi.total_colhido = {5}
  /\ Len(bed_status) = 1 /\ bed_status[1].total = 1

(* C8: whenever there is a planting, the success rate of app.py and        *)
(* app2.py (distinct planting ids of the harvest table over the number of  *)
(* plantings) lies in [0, 1], whatever the harvest table holds.            *)
C8_SuccessRateInUnitInterval ==
  (app \in {"app", "app2"} /\ kpi.taxa_sucesso # NA /\ Val(kpi.total_plantios) > 0) =>
     /\ RatioGE(SuccessRate, Zero)
     /\ RatioLE(SuccessRate, One)

(* C9: when there is no planting, the success rate of app.py and app2.py   *)
(* is reported as an undefined value, never as 0.                          *)
C9_NoPlantingRateUndefined ==
  (app \in {"app", "app2"} /\ kpi.taxa_sucesso # NA /\ kpi.total_plantios = {0}) =>
     /\ kpi.taxa_sucesso = {Undefined}
     /\ kpi.taxa_sucesso # {Zero}

GroupedTotal(groups) ==
  SumSeq([i \in 1..Len(groups) |-> groups[i].quantidade_colhida])

(* C10: the grouped production adds up to the total of the harvests it     *)
(* groups: by bed name and by species name over the propagated harvests    *)
(* of app_enhanced.py, by species name over the harvests of app2.py with   *)
(* no species chosen; a harvest whose planting has no bed or species name  *)
(* is counted in a group of its own, not dropped.                          *)
C10_GroupedSumsAddUp ==
  /\ (app = "app_enhanced" /\ pc = "done") =>
        /\ GroupedTotal(by_canteiro) = Val(kpi.total_colhido)
        /\ GroupedTotal(by_especie) = Val(kpi.total_colhido)
  /\ (app = "app2" /\ pc = "done" /\ crit.especie_sel = "Todas") =>
        GroupedTotal(by_especie) = Val(kpi.total_colhido)

-----------------------------------------------------------------------------
(* Bed map: one bed with up to MaxBedPlantios plantings, the first k of    *)
(* them harvested, the first possibly twice.                               *)

MaxBedPlantios == 5

BedPlantios(n) ==
  [i \in 1..n |->
     [plantio_id |-> {i}, canteiro_id |-> {1}, especie_id |-> {1},
      data_plantio |-> {0}, responsavel |-> {"Ana"}, metodo |-> NA]]

BedColheitas(k, twice) ==
  [i \in 1..k |-> [plantio_id |-> {i}, data_colheita |-> {59}, quantidade_colhida |-> "5"]]
  \o (IF twice /\ k > 0
      THEN <<[plantio_id |-> {1}, data_colheita |-> {59}, quantidade_colhida |-> "5"]>>
      ELSE <<>>)

BedStores ==
  {Store(<<BedA>>, <<Tomato>>, BedPlantios(n), <<>>, BedColheitas(k, twice), <<>>, {}) :
     n \in 0..MaxBedPlantios, k \in 0..MaxBedPlantios, twice \in BOOLEAN}

BedCrits == Crits({<<>>}, {"Todas", "Tomato", "Basil"}, {"Todos"}, {"Todos"}, {"Todos"}, {FALSE})

InitBed == InitWith({"app2", "app_enhanced"}, BedStores, {Today})

NextBed == NextEnh \/ NextApp2 \/ SetFilter(BedCrits)

SpecBed == InitBed /\ [][NextBed]_vars

(* The class of a rate: 'good' from 0.60 on, 'attention' from 0.25 on,     *)
(* 'critical' below.                                                       *)
ClassOfRate(rate) ==
  IF rate[1] * 5 >= 3 * rate[2] THEN "good"
  ELSE IF rate[1] * 4 >= rate[2] THEN "attention" ELSE "critical"

(* C11: the class of every bed of the map is the class of its rate, both   *)
(* lower bounds 0.60 and 0.25 included; beds of equal rate have the same   *)
(* class.                                                                  *)
C11_ClassIsFunctionOfRate ==
  \A i \in 1..Len(bed_status) :
     /\ bed_status[i].rate[2] > 0
     /\ StatusClass(bed_status[i].color) = ClassOfRate(bed_status[i].rate)

(* A bed at exactly 0.60: three of its five plantings harvested. *)
C11_Witness ==
  /\ app = "app_enhanced" /\ pc = "done"
  /\ Len(bed_status) = 1
  /\ bed_status[1].total = 5 /\ bed_status[1].harvested = 3
  /\ bed_status[1].rate = <<3, 5>>
  /\ StatusClass(bed_status[1].color) = "good"

-----------------------------------------------------------------------------
(* Normalisation: harvests of planting 100 over every kind of quantity     *)
(* field (whole, negative, fractional, not a number, empty).               *)

QuantityTexts == DOMAIN NumericTenths \cup {"", "abc"}

NormColheitaRows ==
  [plantio_id : {{100}}, data_colheita : {{59}}, quantidade_colhida : QuantityTexts]

NormStores ==
  {Store(<<BedA>>, <<Tomato>>, <<ScenarioPlantio>>, <<>>, co, <<>>, {}) :
     co \in Tables(NormColheitaRows, MaxColheitas)}

InitNorm == InitWith({"app_enhanced"}, NormStores, {Today})

NextNorm == NextEnh \/ SetFilter(AggCrits)

SpecNorm == InitNorm /\ [][NextNorm]_vars

Normalized ==
  app = "app_enhanced" /\ pc \in {"filter", "ids", "propagate", "page", "done"}

NegativeTexts == {"-3", "-0.4"}

NotNumberTexts == {"", "abc"}

(* C12: after normalisation every harvest quantity is a whole number >= 0, *)
(* and it is 0 for a negative, a non-numeric and a missing input.          *)
C12_QuantityWholeNonNegative ==
  Normalized =>
    \A i \in 1..Len(colheitas) :
       /\ colheitas[i].quantidade_colhida # NA
       /\ Val(colheitas[i].quantidade_colhida) \in Nat
       /\ files.colheitas[i].quantidade_colhida \in NegativeTexts \cup NotNumberTexts
            => colheitas[i].quantidade_colhida = {0}

-----------------------------------------------------------------------------
(* Active plantings (app2.py): plantings with and without an id, harvests  *)
(* with and without a planting id, of quantity 0 and 5.                    *)

ActPlantioRows ==
  [plantio_id : Opt({100, 101}), canteiro_id : {{1}}, especie_id : Opt({1}),
   data_plantio : {{0}}, responsavel : {{"Ana"}}, metodo : {NA}]

ActColheitaRows ==
  [plantio_id : Opt({100}), data_colheita : {{59}}, quantidade_colhida : {"0", "5"}]

ActStores ==
  {Store(<<BedA>>, <<Tomato>>, pl, <<>>, co, <<>>, {}) :
     pl \in Tables(ActPlantioRows, MaxPlantios),
     co \in Tables(ActColheitaRows, MaxColheitas)}

ActCrits == Crits({<<>>}, {"Todas", "Tomato"}, {"Todos"}, {"Todos"}, {"Todos"}, BOOLEAN)

InitAct == InitWith({"app2"}, ActStores, {Today})

NextAct == NextApp2 \/ SetFilter(ActCrits)

SpecAct == InitAct /\ [][NextAct]_vars

(* A harvest row references the planting: it carries the planting's id. *)
HasHarvest(r) ==
  \E j \in 1..Len(colheitas) :
     colheitas[j].plantio_id # NA /\ colheitas[j].plantio_id = r.plantio_id

(* C13: with active_only set, a planting that passes the other criteria is *)
(* selected if and only if no harvest row references its planting_id,      *)
(* whatever the harvested quantities.                                      *)
C13_ActiveOnlyIffNoHarvest ==
  (app = "app2" /\ Selected /\ crit.only_active) =>
     \A i \in 1..Len(plantios) :
        plantios[i] \in Range(plantios_f) <=> (SatisfiesAll(plantios[i]) /\ ~HasHarvest(plantios[i]))

(* The plantings that have an id are selected as C13 states. *)
C13_HoldsForIdentifiedPlantings ==
  (app = "app2" /\ Selected /\ crit.only_active) =>
     \A i \in 1..Len(plantios) :
        plantios[i].plantio_id # NA =>
          (plantios[i] \in Range(plantios_f) <=> (SatisfiesAll(plantios[i]) /\ ~HasHarvest(plantios[i])))

-----------------------------------------------------------------------------
(* Text search (app2.py): a planting with or without notes and id,         *)
(* observations with or without comment and planting id.                   *)

NoteTexts == {<<"a">>, <<"A", "b">>, <<"b">>}

SearchTexts == {<<" ">>, <<"a">>, <<"A">>, <<"a", "b">>, <<" ", "b", " ">>, <<".">>, <<"(">>}

SearchPlantioRows ==
  [plantio_id : Opt({100}), canteiro_id : {{1}}, especie_id : {{1}},
   data_plantio : {{0}}, responsavel : {{"Ana"}}, metodo : {NA},
   notas : Opt(NoteTexts)]

SearchObservRows == [plantio_id : Opt({100, 101}), comentarios : Opt(NoteTexts)]

SearchStores ==
  {Store(<<BedA>>, <<Tomato>>, pl, ob, <<>>, <<>>, {}) :
     pl \in Tables(SearchPlantioRows, MaxPlantios),
     ob \in Tables(SearchObservRows, MaxChild)}

SearchCrits ==
  WithSearch(Crits({<<>>}, {"Todas"}, {"Todos"}, {"Todos"}, {"Todos"}, {FALSE}),
             SearchTexts \cup {<<>>})

InitSearch == InitWith({"app2"}, SearchStores, {Today})

NextSearch == NextApp2 \/ SetFilter(SearchCrits)

SpecSearch == InitSearch /\ [][NextSearch]_vars

(* The term of the search box, blanks aside, in lower case. *)
Term ==
  LET t == SelectSeq(crit.search_text, LAMBDA c : c # " ")
  IN [i \in 1..Len(t) |-> IF t[i] = "A" THEN "a" ELSE t[i]]

(* The text holds the term, letter case aside; a missing text holds none. *)
Holds(cell, term) ==
  /\ cell # NA
  /\ LET text == Val(cell)
     IN \E start \in 0..(Len(text) - Len(term)) :
          \A k \in 1..Len(term) :
             (IF text[start + k] = "A" THEN "a" ELSE text[start + k]) = term[k]

LinkedCommentHolds(r, term) ==
  \E j \in 1..Len(observ) :
     /\ observ[j].plantio_id # NA /\ observ[j].plantio_id = r.plantio_id
     /\ Holds(observ[j].comentarios, term)

(* C14: with a non-empty search text, a planting that passes the other     *)
(* criteria is selected if and only if its notes hold the term or a        *)
(* comment of one of its observations does, letter case aside; missing     *)
(* notes and comments never match.                                         *)
C14_SearchNotesOrComments ==
  (app = "app2" /\ Selected /\ Term # <<>> /\ ~crit.only_active) =>
     \A i \in 1..Len(plantios) :
        plantios[i] \in Range(plantios_f)
          <=> /\ SatisfiesAll(plantios[i])
              /\ Holds(plantios[i].notas, Term) \/ LinkedCommentHolds(plantios[i], Term)

(* The plantings that have an id are selected as C14 states when the term  *)
(* is made of letters.                                                     *)
C14_HoldsForLettersAndIdentified ==
  (app = "app2" /\ Selected /\ Term # <<>> /\ ~crit.only_active
     /\ \A k \in 1..Len(Term) : Term[k] \in {"a", "b"}) =>
     \A i \in 1..Len(plantios) :
        plantios[i].plantio_id # NA =>
          (plantios[i] \in Range(plantios_f)
             <=> /\ SatisfiesAll(plantios[i])
                 /\ Holds(plantios[i].notas, Term) \/ LinkedCommentHolds(plantios[i], Term))

-----------------------------------------------------------------------------
(* The 'N/A' bucket of the responsible filter.                             *)

PassesButResponsible(r) ==
  /\ WithinPeriod(r)
  /\ SpeciesJoined => Matches(crit.especie_sel, "Todas", NameCell(r, "especie_nome"))
  /\ BedsJoined => Matches(crit.canteiro_sel, "Todos", NameCell(r, "canteiro_nome"))
  /\ Matches(crit.metodo_sel, "Todos", r.metodo)

(* C15: choosing the responsible 'N/A' selects exactly the plantings,      *)
(* among those passing the other criteria, whose responsible is missing;   *)
(* 'N/A' is among the choices whenever a planting has no responsible.      *)
C15_MissingResponsibleBucket ==
  (Selected /\ app \in {"app_enhanced", "app2"}) =>
     /\ crit.responsavel_sel = "N/A" =>
          plantios_f = SelectSeq(plantios,
                         LAMBDA r : PassesButResponsible(r) /\ r.responsavel = NA)
     /\ (\E i \in 1..Len(plantios) : plantios[i].responsavel = NA) =>
          "N/A" \in responsavel_options

-----------------------------------------------------------------------------
(* Enrichment: bed and species tables of up to MaxRefs rows, with and      *)
(* without repeated ids; plantings whose bed or species id resolves, does  *)
(* not resolve or is missing.                                              *)

MaxRefs == 2

JoinCanteiroRows ==
  {[canteiro_id |-> {1}, nome |-> {"A"}, area_m2 |-> {10}],
   [canteiro_id |-> {1}, nome |-> {"B"}, area_m2 |-> {10}],
   [canteiro_id |-> {2}, nome |-> {"B"}, area_m2 |-> {10}]}

JoinEspecieRows ==
  {[especie_id |-> {1}, nome_comum |-> {"Tomato"}],
   [especie_id |-> {1}, nome_comum |-> {"Basil"}]}

JoinPlantioRows ==
  [plantio_id : {{100}}, canteiro_id : Opt({1, 3}), especie_id : Opt({1}),
   data_plantio : {{0}}, responsavel : {{"Ana"}}, metodo : {NA}]

JoinStores ==
  {Store(can, esp, pl, <<>>, <<>>, <<>>, {}) :
     can \in Tables(JoinCanteiroRows, MaxRefs),
     esp \in Tables(JoinEspecieRows, MaxRefs),
     pl \in Tables(JoinPlantioRows, MaxPlantios)}

JoinCrits == Crits({<<>>}, {"Todas", "Tomato"}, {"Todos"}, {"Todos"}, {"Todos"}, {FALSE})

InitJoin == InitWith({"app2", "app_enhanced"}, JoinStores, {Today})

NextJoin == NextEnh \/ NextApp2 \/ SetFilter(JoinCrits)

SpecJoin == InitJoin /\ [][NextJoin]_vars

(* The run has enriched the plantings. *)
Enriched ==
  /\ app \in {"app_enhanced", "app2"}
  /\ pc \notin {"load", "join", "error"}

(* Every row has an id and no two rows share one. *)
UniqueIds(df, idf) ==
  /\ \A i \in 1..Len(df) : df[i][idf] # NA
  /\ \A i, j \in 1..Len(df) : df[i][idf] = df[j][idf] => i = j

(* The name of the record the id refers to; none when the id is missing    *)
(* or refers to no record.                                                 *)
Referenced(df, idf, namef, id) ==
  IF id # NA /\ \E j \in 1..Len(df) : df[j][idf] = id
  THEN df[CHOOSE j \in 1..Len(df) : df[j][idf] = id][namef]
  ELSE NA

(* C16: given unique bed ids and unique species ids, the enriched view     *)
(* holds every planting of the store exactly once, in order, with the name *)
(* of its bed and of its species when the id resolves and none when not.   *)
C16_EnrichmentIsLeftOuter ==
  (Enriched /\ UniqueIds(canteiros, "canteiro_id") /\ UniqueIds(especies, "especie_id")) =>
     /\ Len(plantios) = Len(files.plantios)
     /\ \A i \in 1..Len(plantios) :
          /\ [f \in DOMAIN files.plantios[i] |-> plantios[i][f]] = files.plantios[i]
          /\ NameCell(plantios[i], "canteiro_nome")
               = Referenced(canteiros, "canteiro_id", "nome", plantios[i].canteiro_id)
          /\ NameCell(plantios[i], "especie_nome")
               = Referenced(especies, "especie_id", "nome_comum", plantios[i].especie_id)

(* A planting of a bed that no record has, of a species that resolves. *)
C16_Witness ==
  /\ Enriched /\ app = "app_enhanced"
  /\ Len(canteiros) = 2 /\ UniqueIds(canteiros, "canteiro_id")
  /\ Len(especies) = 1
  /\ Len(plantios) = 1
  /\ plantios[1].canteiro_id = {3} /\ plantios[1].canteiro_nome = NA
  /\ plantios[1].especie_id = {1} /\ plantios[1].especie_nome = {"Tomato"}

-----------------------------------------------------------------------------
(* Absent sources: the scenario files, any of them missing.                *)

AbsentStores ==
  {Store(<<BedA>>, <<Tomato>>, <<ScenarioPlantio>>, <<>>, <<ScenarioColheita>>, <<>>, abs) :
     abs \in SUBSET FileNames}

InitAbsent == InitWith({"app2", "app_enhanced"}, AbsentStores, {Today})

NextAbsent == NextEnh \/ NextApp2 \/ SetFilter(AggCrits)

SpecAbsent == InitAbsent /\ [][NextAbsent]_vars

LoadedTable(name) ==
  CASE name = "canteiros" -> canteiros
    [] name = "especies" -> especies
    [] name = "plantios" -> plantios
    [] name = "observacoes" -> observ
    [] name = "colheitas" -> colheitas
    [] name = "eventos" -> eventos

(* C17: whatever sources are absent, the run does not fail: once loaded,   *)
(* every absent source is an empty table with a reported message, and the  *)
(* enrichment, selection, propagation and aggregation that follow end      *)
(* without an error.                                                       *)
C17_AbsentSourcesDegrade ==
  /\ pc # "error"
  /\ pc # "load" =>
       \A n \in files.absent :
          /\ LoadedTable(n) = <<>>
          /\ <<"error", "Arquivo ausente", n>> \in messages

-----------------------------------------------------------------------------
(* Period of the date filter: plantings of January and July, and ranges    *)
(* that run forwards, cover one day, or run backwards.                     *)

MaxPeriodPlantios == 2

PeriodPlantioRows ==
  [plantio_id : {{100}}, canteiro_id : {{1}}, especie_id : {{1}},
   data_plantio : {{0}, {181}}, responsavel : {{"Ana"}}, metodo : {NA}]

PeriodStores ==
  {Store(<<BedA>>, <<Tomato>>, pl, <<>>, <<ScenarioColheita>>, <<>>, {}) :
     pl \in Tables(PeriodPlantioRows, MaxPeriodPlantios)}

PeriodCrits ==
  Crits({<<>>, <<0, 181>>, <<181, 181>>, <<181, 0>>, <<364, 59>>},
        {"Todas"}, {"Todos"}, {"Todos"}, {"Todos"}, {FALSE})

InitPeriod == InitWith({"app_enhanced"}, PeriodStores, {Today})

NextPeriod == NextEnh \/ SetFilter(PeriodCrits)

SpecPeriod == InitPeriod /\ [][NextPeriod]_vars

StartAfterEnd(range) == \E s \in range[1] : \E e \in range[2] : s > e

(* C18: a date range whose start is after its end is rejected: the run     *)
(* fails before the selection is computed, so it never stands past the     *)
(* selection step with such a range.                                       *)
C18_InvertedRangeRejected ==
  (date_range # <<>> /\ StartAfterEnd(date_range)) =>
     pc \in {"normalize", "filter", "error"}

-----------------------------------------------------------------------------
(* Success rate by species (app2.py): two species, plantings of either or  *)
(* of none, with and without an id, harvests with and without a planting   *)
(* id.                                                                     *)

MaxRatePlantios == 2

RatePlantioRows ==
  [plantio_id : Opt({100, 101}), canteiro_id : {{1}}, especie_id : Opt({1, 2}),
   data_plantio : {{0}}, responsavel : {{"Ana"}}, metodo : {NA}]

RateColheitaRows ==
  [plantio_id : Opt({100, 999}), data_colheita : {{59}}, quantidade_colhida : {"5"}]

Basil == [especie_id |-> {2}, nome_comum |-> {"Basil"}]

RateStores ==
  {Store(<<BedA>>, <<Tomato, Basil>>, pl, <<>>, co, <<>>, {}) :
     pl \in Tables(RatePlantioRows, MaxRatePlantios),
     co \in Tables(RateColheitaRows, MaxColheitas)}

InitRate == InitWith({"app2"}, RateStores, {Today})

NextRate == NextApp2 \/ SetFilter(AggCrits)

SpecRate == InitRate /\ [][NextRate]_vars

(* The plantings of the species of that name. *)
GroupOf(name) == SelectSeq(plantios, LAMBDA r : r.especie_nome = {name})

RateEntries(name) == SelectSeq(species_rate, LAMBDA e : e.especie_nome = {name})

(* C19: the rate table has, for each species with at least one planting,   *)
(* one entry: (plantings of the species with at least one harvest) /       *)
(* (plantings of the species), between 0 and 1; a species without          *)
(* plantings has no entry.                                                 *)
C19_SuccessRateBySpecies ==
  (app = "app2" /\ pc = "done") =>
     \A n \in Range(AllNames) :
        LET g == GroupOf(n)
        IN IF g = <<>> THEN RateEntries(n) = <<>>
           ELSE /\ Len(RateEntries(n)) = 1
                /\ RateEntries(n)[1].sucesso_rate =
                     {<<Len(SelectSeq(g, HasHarvest)), Len(g)>>}
                /\ RatioGE(Val(RateEntries(n)[1].sucesso_rate), Zero)
                /\ RatioLE(Val(RateEntries(n)[1].sucesso_rate), One)

-----------------------------------------------------------------------------
(* Monthly production series (app_enhanced.py): harvests of one planting   *)
(* in January, in March, or undated, under no period, the year or the      *)
(* first quarter.                                                          *)

MaxSeriesColheitas == 2

SeriesColheitaRows ==
  [plantio_id : {{100}}, data_colheita : Opt({0, 20, 59}), quantidade_colhida : {"5"}]

SeriesStores ==
  {Store(<<BedA>>, <<Tomato>>, <<ScenarioPlantio>>, <<>>, co, <<>>, {}) :
     co \in Tables(SeriesColheitaRows, MaxSeriesColheitas)}

SeriesCrits ==
  Crits({<<>>, <<0, 364>>, <<0, 89>>}, {"Todas"}, {"Todos"}, {"Todos"}, {"Todos"}, {FALSE})

InitSeries == InitWith({"app_enhanced"}, SeriesStores, {Today})

NextSeries == NextEnh \/ SetFilter(SeriesCrits)

SpecSeries == InitSeries /\ [][NextSeries]_vars

(* The harvests the series is drawn from: the harvests of the view dated   *)
(* inside the period.                                                      *)
SeriesHarvests ==
  SelectSeq(colheitas_f,
    LAMBDA r : r.data_colheita # NA /\ InPeriod(r.data_colheita, date_range))

HarvestsOfMonth(first_day) ==
  SelectSeq(SeriesHarvests, LAMBDA r : MonthStart(MonthOf(Val(r.data_colheita))) = first_day)

(* C20: the monthly series has exactly one entry for each calendar month   *)
(* with at least one harvest, carrying the sum of that month's quantities; *)
(* a month without a harvest has no entry, also between two months that    *)
(* have one.                                                               *)
C20_SeriesHasActiveMonthsOnly ==
  (app = "app_enhanced" /\ pc = "done") =>
     /\ \A k \in 1..Len(monthly) :
           /\ HarvestsOfMonth(monthly[k].month) # <<>>
           /\ monthly[k].quantidade_colhida =
                SumCells(Column(HarvestsOfMonth(monthly[k].month), "quantidade_colhida"))
           /\ \A j \in 1..Len(monthly) : monthly[j].month = monthly[k].month => j = k
     /\ \A i \in 1..Len(SeriesHarvests) :
           \E k \in 1..Len(monthly) :
              monthly[k].month = MonthStart(MonthOf(Val(SeriesHarvests[i].data_colheita)))

-----------------------------------------------------------------------------
(* Bed map: harvested plantings of a bed.                                  *)

BedStatusShown ==
  \/ app = "app2" /\ pc \in {"prod", "rate", "done"}
  \/ app = "app_enhanced" /\ pc = "done"

(* The plantings the map counts for a bed: those of the selection in       *)
(* app_enhanced.py, every planting in app2.py.                             *)
BedPlantings(cid) ==
  SelectSeq(IF app = "app_enhanced" THEN plantios_f ELSE plantios,
            LAMBDA r : cid # NA /\ r.canteiro_id = cid)

HarvestedOfBed(cid) ==
  {r.plantio_id : r \in {p \in Range(BedPlantings(cid)) : HasHarvest(p)}}

(* C24: the harvested count of every bed of the map is the number of       *)
(* distinct plantings of the bed with at least one harvest row; a bed      *)
(* whose plantings have no harvest shows harvested 0 and rate 0.           *)
C24_HarvestedCountsHarvestedPlantings ==
  BedStatusShown =>
     \A i \in 1..Len(bed_status) :
        /\ bed_status[i].harvested = Cardinality(HarvestedOfBed(bed_status[i].canteiro_id))
        /\ HarvestedOfBed(bed_status[i].canteiro_id) = {} =>
             (bed_status[i].harvested = 0 /\ bed_status[i].rate[1] = 0)

-----------------------------------------------------------------------------
(* KPIs and the current selection.                                         *)

(* The harvests whose planting is in the selection. *)
HarvestsOfSelection ==
  SelectSeq(colheitas,
    LAMBDA h : h.plantio_id # NA
               /\ \E i \in 1..Len(plantios_f) : plantios_f[i].plantio_id = h.plantio_id)

(* C25: when a run ends, its KPI scalars are those of the current          *)
(* selection: the planting count is the size of the selection and the      *)
(* total harvested is the sum of the quantities of the harvests whose      *)
(* planting is selected.                                                   *)
C25_KpisOfCurrentSelection ==
  pc = "done" =>
     /\ kpi.total_plantios = {Len(plantios_f)}
     /\ kpi.total_colhido = {SumCells(Column(HarvestsOfSelection, "quantidade_colhida"))}

-----------------------------------------------------------------------------
(* Monthly series and total harvested.                                     *)

(* C27: when every propagated harvest has a valid harvest date, the values *)
(* of the monthly series add up to the total harvested KPI of the run.     *)
C27_SeriesAddsUpToTotal ==
  (app = "app_enhanced" /\ pc = "done"
     /\ \A i \in 1..Len(colheitas_f) : colheitas_f[i].data_colheita # NA) =>
     GroupedTotal(monthly) = Val(kpi.total_colhido)

-----------------------------------------------------------------------------
(* Bed status under a selection (app_enhanced.py): two beds, two species,  *)
(* plantings with and without an id, harvests of either planting or of     *)
(* none.                                                                   *)

MaxStatusPlantios == 2

BedB == [canteiro_id |-> {2}, nome |-> {"B"}, area_m2 |-> {10}]

StatusPlantioRows ==
  [plantio_id : Opt({100, 101}), canteiro_id : {{1}, {2}}, especie_id : {{1}, {2}},
   data_plantio : {{0}}, responsavel : {{"Ana"}}, metodo : {NA}]

StatusColheitaRows ==
  [plantio_id : Opt({100, 101}), data_colheita : {{0}}, quantidade_colhida : {"5"}]

StatusStores ==
  {Store(<<BedA, BedB>>, <<Tomato, Basil>>, pl, <<>>, co, <<>>, {}) :
     pl \in Tables(StatusPlantioRows, MaxStatusPlantios),
     co \in Tables(StatusColheitaRows, MaxStatusPlantios)}

StatusCrits == Crits({<<>>}, {"Todas", "Tomato"}, {"Todos"}, {"Todos"}, {"Todos"}, {FALSE})

InitStatus == InitWith({"app_enhanced"}, StatusStores, {Today})

NextStatus == NextEnh \/ SetFilter(StatusCrits)

SpecStatus == InitStatus /\ [][NextStatus]_vars

(* C28: for every bed of the dashboard, total is the number of distinct    *)
(* selected plantings of the bed, harvested is between 0 and total and     *)
(* counts no planting outside the selection, the rate is between 0 and 1,  *)
(* and it is 0 when the bed has no selected planting.                      *)
C28_BedStatusWithinSelection ==
  (app = "app_enhanced" /\ pc = "done") =>
     \A i \in 1..Len(bed_status) :
        LET b == bed_status[i]
        IN /\ b.total = Cardinality(
                 UNION {r.plantio_id : r \in Range(BedPlantings(b.canteiro_id))})
           /\ 0 <= b.harvested /\ b.harvested <= b.total
           /\ b.harvested <= Cardinality(HarvestedOfBed(b.canteiro_id))
           /\ RatioGE(b.rate, Zero) /\ RatioLE(b.rate, One)
           /\ b.total = 0 => b.rate = Zero

(* Tomato chosen: the Tomato planting of bed A has no harvest, the Basil   *)
(* planting of bed A, outside the selection, has one.                      *)
C28_Witness ==
  /\ app = "app_enhanced" /\ pc = "done" /\ crit.especie_sel = "Tomato"
  /\ Len(plantios) = 2 /\ Len(plantios_f) = 1
  /\ plantios_f[1].plantio_id = {100} /\ plantios_f[1].canteiro_id = {1}
  /\ \E i \in 1..2 : plantios[i].plantio_id = {101} /\ plantios[i].canteiro_id = {1}
  /\ Len(colheitas) = 1 /\ colheitas[1].plantio_id = {101}
  /\ bed_status[1].total = 1 /\ bed_status[1].harvested = 0
  /\ bed_status[2].total = 0 /\ bed_status[2].rate = Zero

-----------------------------------------------------------------------------
(* Pages Colheitas and Manejo (app_enhanced.py): one Tomato planting, with *)
(* or without an id, harvests and events of it, of another planting or of  *)
(* none, and the species filter set to a species with or without           *)
(* plantings.                                                              *)

TablePlantioRows ==
  [plantio_id : Opt({100}), canteiro_id : {{1}}, especie_id : {{1}},
   data_plantio : {{0}}, responsavel : {{"Ana"}}, metodo : {NA}]

TableColheitaRows ==
  [plantio_id : Opt({100, 101}), data_colheita : {{0}}, quantidade_colhida : {"5", "abc"}]

TableEventoRows == [plantio_id : Opt({100, 101}), tipo_evento : {{"Rega"}}]

TableStores ==
  {Store(<<BedA>>, <<Tomato, Basil>>, pl, <<>>, co, evt, {}) :
     pl \in Tables(TablePlantioRows, MaxPlantios),
     co \in Tables(TableColheitaRows, MaxChild),
     evt \in Tables(TableEventoRows, MaxChild)}

TableCrits ==
  WithPage(Crits({<<>>}, {"Todas", "Tomato", "Basil"}, {"Todos"}, {"Todos"}, {"Todos"}, {FALSE}),
           {"Dashboard", "Colheitas", "Manejo"})

InitTable == InitWith({"app_enhanced"}, TableStores, {Today})

NextTable == NextEnh \/ EnhColheitas \/ EnhManejo \/ SetFilter(TableCrits)

SpecTable == InitTable /\ [][NextTable]_vars

(* C22: on the Colheitas and Manejo pages, a selection without plantings   *)
(* gives an empty table, never the unfiltered harvests or events.          *)
C22_EmptySelectionEmptyPageTable ==
  (app = "app_enhanced" /\ pc = "done" /\ plantios_f = <<>>) =>
     /\ crit.page = "Colheitas" => cf = <<>>
     /\ crit.page = "Manejo" => ev = <<>>

-----------------------------------------------------------------------------
(* The stored tables after normalization.                                  *)

AfterNormalization ==
  app = "app_enhanced" /\ pc \in {"filter", "ids", "propagate", "page", "done", "error"}

(* The table holds every row of its file, in order, each value as read;    *)
(* the harvested quantity, normalized at load, is a number.                *)
AsLoaded(name) ==
  /\ Len(LoadedTable(name)) = Len(files[name])
  /\ \A i \in 1..Len(files[name]) :
        \A f \in DOMAIN files[name][i] :
           IF f = "quantidade_colhida"
           THEN \E q \in LoadedTable(name)[i][f] : q \in Int
           ELSE LoadedTable(name)[i][f] = files[name][i][f]

(* C21: once normalized, the six stored tables hold the rows and values    *)
(* that were loaded, whatever filters are set and whatever page is viewed: *)
(* selection, propagation, aggregation and the page tables leave them as   *)
(* they were.                                                              *)
C21_StoredTablesUntouched ==
  AfterNormalization => \A name \in FileNames : AsLoaded(name)

(* Tomato chosen on the Colheitas page: the harvest of planting 101 is in  *)
(* neither the propagated table nor the page table, and still stored.      *)
C21_Witness ==
  /\ app = "app_enhanced" /\ pc = "done"
  /\ crit.page = "Colheitas" /\ crit.especie_sel = "Tomato"
  /\ Len(plantios_f) = 1 /\ plantios_f[1].plantio_id = {100}
  /\ Len(colheitas) = 1 /\ colheitas[1].plantio_id = {101}
  /\ colheitas_f = <<>> /\ cf = <<>>

-----------------------------------------------------------------------------
(* Per-bed report (app_enhanced.py): two beds, the species table with or   *)
(* without rows, plantings with and without an id in either bed, harvests  *)
(* with and without a planting id.                                         *)

MaxReportRows == 2

ReportPlantioRows ==
  [plantio_id : Opt({100}), canteiro_id : {{1}, {2}}, especie_id : {{1}},
   data_plantio : {{0}}, responsavel : {{"Ana"}}, metodo : {NA}]

ReportColheitaRows ==
  [plantio_id : Opt({100}), data_colheita : {{0}}, quantidade_colhida : {"5"}]

ReportStores ==
  {Store(<<BedA, BedB>>, esp, pl, <<>>, co, <<>>, {}) :
     esp \in {<<>>, <<Tomato>>},
     pl \in Tables(ReportPlantioRows, MaxReportRows),
     co \in Tables(ReportColheitaRows, MaxReportRows)}

ReportCrits ==
  WithPage(Crits({<<>>}, {"Todas", "Basil"}, {"Todos"}, {"Todos"}, {"Todos"}, {FALSE}),
           {"Dashboard", "Relatórios"})

InitReport == InitWith({"app_enhanced"}, ReportStores, {Today})

NextReport == NextEnh \/ EnhRelatorios \/ SetFilter(ReportCrits)

SpecReport == InitReport /\ [][NextReport]_vars

(* The propagated harvests whose planting is a selected planting of the    *)
(* bed of that name.                                                       *)
HarvestsOfBed(name) ==
  SelectSeq(colheitas_f,
    LAMBDA h : h.plantio_id # NA
               /\ \E i \in 1..Len(plantios_f) :
                     /\ plantios_f[i].plantio_id = h.plantio_id
                     /\ NameCell(plantios_f[i], "canteiro_nome") = name)

(* C29: the total harvested of the per-bed report, in the page summary and *)
(* in the PDF, is the sum of the quantities of the propagated harvests     *)
(* whose planting is a selected planting of the bed; nothing is added from *)
(* the unfiltered harvests when no harvest is propagated.                  *)
C29_ReportTotalOfBed ==
  (app = "app_enhanced" /\ pc = "done" /\ report # NoReport) =>
     LET expected == SumCells(Column(HarvestsOfBed(report.can_sel), "quantidade_colhida"))
     IN /\ report.total_colhido = expected
        /\ report.pdf_total_colhido # NA => report.pdf_total_colhido = {expected}
        /\ colheitas_f = <<>> => report.total_colhido = 0

-----------------------------------------------------------------------------
(* Page Fotos (app_enhanced.py).  A photo is stored under a name made of   *)
(* the planting id, the second of the save and the cleaned name of the     *)
(* uploaded file; photo_metadata.csv gets one row for the save.            *)

NoFile == <<>>

(* ch.isalnum() or ch in (" ", ".", "_") *)
SafeChars == {"a", "b", "j", "p", "g", " ", ".", "_"}

rstrip(text) == Reverse(lstrip(Reverse(text)))

safe_name(name) == rstrip(SelectSeq(name, LAMBDA ch : ch \in SafeChars))

(* f"plantio_{plantio_id}_{ts}_{safe_name}": the two numbers have digits    *)
(* only, so the text is the same exactly when the three parts are.         *)
fname(plantio_id, ts, name) ==
  [plantio_id |-> plantio_id, ts |-> ts, safe_name |-> safe_name(name)]

(* The plantings on offer: the ids of the stored plantings, else the       *)
(* number input with its default 1.                                        *)
pids ==
  LET ids == UNION Range(Column(plantios, "plantio_id"))
  IN IF ids # {} THEN ids ELSE {1}

(* The metadata after the save of one row. *)
save_metadata(row) ==
  IF photo_metadata.exists /\ photo_metadata.readable
  THEN [photo_metadata EXCEPT !.rows = Append(@, row)]
  ELSE [exists |-> TRUE, readable |-> TRUE, rows |-> <<row>>]

EnhFotos(Names) ==
  /\ app = "app_enhanced" /\ pc = "page" /\ crit.page = "Fotos"
  /\ \E plantio_id \in pids : \E file \in {NoFile} \cup Names : \E salvar \in BOOLEAN :
       IF salvar /\ file # NoFile
       THEN LET target == fname(plantio_id, clock, file)
                row == [plantio_id |-> plantio_id, file |-> target,
                        caption |-> NA, timestamp |-> clock]
            IN /\ uploads' = uploads \cup {target}
               /\ photo_metadata' = save_metadata(row)
               /\ pc' = "done"
       ELSE /\ UNCHANGED <<uploads, photo_metadata>>
            /\ pc' = IF photo_metadata.exists /\ ~photo_metadata.readable
                     THEN "error" ELSE "done"
  /\ UNCHANGED <<species_rate, monthly, cf, ev, report, clock, prev>>
  /\ UNCHANGED <<app, files, today, crit, canteiros, especies, plantios, observ,
                 colheitas, eventos, has_canteiro_nome, has_especie_nome,
                 date_range, plantios_f, plantio_ids, colheitas_f, observ_f,
                 eventos_f, kpi, by_canteiro, by_especie, bed_status, messages>>

(* datetime.datetime.now(): a second goes by. *)
Tick(MaxClock) ==
  /\ clock < MaxClock
  /\ clock' = clock + 1
  /\ UNCHANGED <<app, files, today, crit, pc, canteiros, especies, plantios, observ,
                 colheitas, eventos, has_canteiro_nome, has_especie_nome,
                 date_range, plantios_f, plantio_ids, colheitas_f, observ_f,
                 eventos_f, kpi, by_canteiro, by_especie, bed_status, messages,
                 species_rate, monthly, cf, ev, report, photo_metadata, uploads, prev>>

(* photo_metadata.csv stops being a table pd.read_csv can parse (it is     *)
(* edited or truncated outside the application).                           *)
MetadataDamaged ==
  /\ photo_metadata.exists /\ photo_metadata.readable
  /\ photo_metadata' = [photo_metadata EXCEPT !.readable = FALSE]
  /\ UNCHANGED <<app, files, today, crit, pc, canteiros, especies, plantios, observ,
                 colheitas, eventos, has_canteiro_nome, has_especie_nome,
                 date_range, plantios_f, plantio_ids, colheitas_f, observ_f,
                 eventos_f, kpi, by_canteiro, by_especie, bed_status, messages,
                 species_rate, monthly, cf, ev, report, uploads, clock, prev>>

MaxFotos == 2

MaxClock == 1

Ext == <<".", "j", "p", "g">>

(* Names of uploaded files: a stem of letters and hyphens and ".jpg". *)
FotoNames == {stem \o Ext : stem \in {<<"a">>, <<"b">>, <<"a", "-">>, <<"-", "a">>}}

FotoPlantioRows ==
  [plantio_id : {{100}, {101}}, canteiro_id : {{1}}, especie_id : {{1}},
   data_plantio : {{0}}, responsavel : {{"Ana"}}, metodo : {NA}]

FotoStores ==
  {Store(<<BedA>>, <<Tomato>>, pl, <<>>, <<>>, <<>>, {}) :
     pl \in Tables(FotoPlantioRows, 1)}

FotoCrits ==
  WithPage(Crits({<<>>}, {"Todas"}, {"Todos"}, {"Todos"}, {"Todos"}, {FALSE}),
           {"Dashboard", "Fotos"})

InitFotos == InitWith({"app_enhanced"}, FotoStores, {Today})

(* A new run starts while fewer than MaxFotos photos are kept. *)
NextFotos ==
  \/ NextEnh
  \/ EnhFotos(FotoNames)
  \/ Tick(MaxClock)
  \/ MetadataDamaged
  \/ (Len(photo_metadata.rows) < MaxFotos /\ Cardinality(uploads) < MaxFotos
      /\ SetFilter(FotoCrits))

SpecFotos == InitFotos /\ [][NextFotos]_vars

MetadataFiles == {photo_metadata.rows[i].file : i \in 1..Len(photo_metadata.rows)}

(* C30: the metadata holds one row per saved photo, each row names a       *)
(* stored file of its own and every stored file is named by a row.         *)
C30_OneRowPerSavedPhoto ==
  /\ Cardinality(MetadataFiles) = Len(photo_metadata.rows)
  /\ MetadataFiles = uploads

-----------------------------------------------------------------------------
(* Narrowing (app_enhanced.py, app2.py): plantings that differ in bed and  *)
(* responsible, or in species, method and date; harvests, observations and *)
(* events of either planting.                                              *)

MaxMonoPlantios == 2

MonoPlantio(k1, k2) ==
  [plantio_id |-> {99 + k1 + k2}, canteiro_id |-> {k1}, especie_id |-> {k2},
   data_plantio |-> {IF k2 = 1 THEN 10 ELSE 100},
   responsavel |-> {IF k1 = 1 THEN "Ana" ELSE "Bob"},
   metodo |-> IF k2 = 1 THEN {"muda"} ELSE NA,
   notas |-> NA]

MonoPlantioRows == {MonoPlantio(k1, k2) : k1 \in {1, 2}, k2 \in {1, 2}}

MonoChild(id) == [plantio_id |-> {id}]

MonoStores ==
  {Store(<<BedA, BedB>>, <<Tomato, Basil>>, pl,
         <<[plantio_id |-> {101}, comentarios |-> NA]>>,
         <<[plantio_id |-> {101}, data_colheita |-> {150}, quantidade_colhida |-> "5"],
           [plantio_id |-> {102}, data_colheita |-> {150}, quantidade_colhida |-> "5"]>>,
         <<[plantio_id |-> {102}, tipo_evento |-> {"rega"}]>>, {}) :
     pl \in Tables(MonoPlantioRows, MaxMonoPlantios)}

MonoCrits ==
  Crits({<<>>, <<0, 364>>, <<0, 59>>}, {"Todas", "Tomato"}, {"Todos", "A"},
        {"Todos", "Ana"}, {"Todos", "muda"}, {FALSE})

InitMono == InitWith({"app_enhanced", "app2"}, MonoStores, {Today})

NextMono == NextEnh \/ NextApp2 \/ SetFilter(MonoCrits) \/ Narrow(MonoCrits)

SpecMono == InitMono /\ [][NextMono]_vars

(* C26: after a narrowing of the criteria the selection is a subset of the *)
(* selection before it, and so is each propagated child table.             *)
C26_NarrowingNeverEnlarges ==
  (prev.run /\ pc = "done") =>
     /\ Range(plantios_f) \subseteq Range(prev.plantios_f)
     /\ Range(colheitas_f) \subseteq Range(prev.colheitas_f)
     /\ Range(observ_f) \subseteq Range(prev.observ_f)
     /\ Range(eventos_f) \subseteq Range(prev.eventos_f)

C26_Witness ==
  /\ prev.run /\ pc = "done"
  /\ plantios_f # <<>>
  /\ Len(plantios_f) < Len(prev.plantios_f)
  /\ app = "app_enhanced"
  /\ colheitas_f # <<>> /\ Len(colheitas_f) < Len(prev.colheitas_f)

-----------------------------------------------------------------------------
(* Identifier text (app_enhanced.py): plantings whose bed id or species id *)
(* is a number, empty or a text that is no number; bed and species tables  *)
(* with numeric ids, with or without rows.                                 *)

MaxIdPlantios == 2

IdPlantioRows ==
  {r \in [plantio_id : {{100}}, canteiro_id : Opt({1}), especie_id : Opt({1}),
          data_plantio : {{0}}, responsavel : {{"Ana"}}, metodo : {NA},
          text : SUBSET {"canteiro_id", "especie_id"}] :
     \A col \in r.text : r[col] = NA}

IdStores ==
  {Store(can, esp, pl, <<>>, <<>>, <<>>, {}) :
     can \in {<<>>, <<BedA>>}, esp \in {<<>>, <<Tomato>>},
     pl \in Tables(IdPlantioRows, MaxIdPlantios)}

IdCrits == Crits({<<>>}, {"Todas", "Tomato"}, {"Todos"}, {"Todos"}, {"Todos"}, {FALSE})

InitIds == InitWith({"app_enhanced"}, IdStores, {Today})

NextIds == NextEnh \/ SetFilter(IdCrits)

SpecIds == InitIds /\ [][NextIds]_vars

(* C23: the enrichment join compares ids that are numbers or missing, and  *)
(* no run ends in an exception raised by the join.                         *)
C23_JoinSeesNormalizedIds ==
  app = "app_enhanced" =>
    /\ pc = "join" => \A i \in 1..Len(plantios) : text_columns(plantios[i]) = {}
    /\ \A m \in messages : m[1] # "exception"

=============================================================================
